---- MODULE Spec2Model ----
(***************************************************************************)
(* Models of programs of the repository, which share no state:             *)
(*   - the goroutines-and-channels program (Spec, FairSpec);               *)
(*   - the REST server of the http-rest-apis example, serving requests one *)
(*     after the other (ServerSpec) and at the same time (ConcurrentSpec); *)
(*   - package calculator and its tests (CalcSpec);                        *)
(*   - the BankAccount type of the custom-types-and-methods program        *)
(*     (BankSpec);                                                         *)
(*   - the recursive function factorial of the functions-and-return-types  *)
(*     program (FactorialSpec, FairFactorialSpec);                         *)
(*   - the examples pointersWithFunctions and pointersWithSlices of the    *)
(*     pointers program (PointerSpec);                                     *)
(*   - the file-I/O program, run one time after the other (FileSpec).      *)
(* A specification runs one program and holds the others' variables still. *)
(*                                                                         *)
(* The goroutines-and-channels program: package main with                  *)
(* printNumbers, printLetters, sendData, receiveData,                      *)
(* bufferedChannelExample, worker, workerPoolExample, selectExample, main. *)
(*                                                                         *)
(* Every goroutine is a process with a program counter; a step of the      *)
(* model is a step of one goroutine (or the meeting of a sender and a      *)
(* receiver on an unbuffered channel), and the Go scheduler may run the    *)
(* runnable goroutines in any order.                                       *)
(*                                                                         *)
(* Channels: a buffered channel is a FIFO sequence with a capacity; a send *)
(* waits while the buffer is full, a receive waits while it is empty; a    *)
(* send on, or a close of, a closed channel panics; range over a closed    *)
(* and drained channel ends.                                               *)
(*                                                                         *)
(* time.Sleep(d) pauses the calling goroutine for AT LEAST d.  The runtime *)
(* promises no upper bound: a goroutine whose sleep is over runs again     *)
(* when the scheduler picks it.  The durations therefore put no order on   *)
(* the events of different goroutines, and a sleep is the end of the step  *)
(* that calls it: the goroutine's next step is taken at some later time.   *)
(*                                                                         *)
(* When main returns the process exits: no goroutine takes another step.   *)
(***************************************************************************)
EXTENDS Integers, Sequences, FiniteSets, TLC

\* ------------------------------------------------------------------------
\* Program constants
\* ------------------------------------------------------------------------
NumCount == 5           \* printNumbers: for i := 1; i <= 5
LetCount == 5           \* printLetters: len(letters)
SendCount == 5          \* sendData: for i := 1; i <= 5
\* variants of the buffered channel's capacity
BufCapThree == 2 + 1
BufCapOne == 2 - 1
BufCap == 2             \* bufferedChannelExample: make(chan string, 2)
\* a pool of one worker more
NumWorkersMore == 3 + 1
NumWorkers == 3         \* workerPoolExample: for w := 1; w <= 3
NumJobs == 5            \* workerPoolExample: for j := 1; j <= 5
\* a jobs channel one slot too small for the 5 jobs
JobsCapSmall == NumJobs - 1
JobsCap == 5            \* workerPoolExample: make(chan int, 5)
ResultsCap == 5         \* workerPoolExample: make(chan int, 5)
\* a collect loop that waits for one result more than there are jobs
NumCollectMore == NumJobs + 1
NumCollect == 5         \* workerPoolExample: for a := 1; a <= 5
\* a select loop that runs once
SelCountOne == 2 - 1
SelCount == 2           \* selectExample: for i := 0; i < 2

Workers == 1..NumWorkers
Senders == 1..2         \* the two anonymous goroutines of selectExample

VARIABLES
    pcMain,     \* where main is
    mi,         \* main's current loop counter (w, j, a or i)
    crashed,    \* a goroutine panicked: the process is gone
    pcNum,      \* printNumbers: "none" (not started), "run", "done"
    numI,       \* printNumbers: "Number:" lines printed
    pcLet,      \* printLetters: "none", "run", "done"
    letI,       \* printLetters: "Letter:" lines printed
    pcSend,     \* sendData: "none", "send", "sleep", "close", "done"
    sendI,      \* sendData: i
    chClosed,   \* main's ch is closed
    recvd,      \* receiveData: the values printed as "Received: n", in order
    bch,        \* bufferedChannelExample: ch's buffer
    bout,       \* bufferedChannelExample: the lines printed from <-ch
    jobs,       \* workerPoolExample: jobs' buffer
    jobsClosed, \* jobs is closed
    results,    \* workerPoolExample: results' buffer
    pcW,        \* worker w: "none", "range", "work", "done"
    wJob,       \* worker w: job (0 outside the loop body)
    received,   \* workerPoolExample: the values printed as "Result: n", in order
    pcS,        \* selectExample's goroutine k: "none", "sleep", "send", "done"
    selGot      \* selectExample: the channels (1 or 2) select received from, in order

mainVars == <<pcMain, mi, crashed>>
basicVars == <<pcNum, numI, pcLet, letI>>
chanVars == <<pcSend, sendI, chClosed, recvd>>
bufVars == <<bch, bout>>
poolVars == <<jobs, jobsClosed, results, pcW, wJob, received>>
selVars == <<pcS, selGot>>
vars == <<mainVars, basicVars, chanVars, bufVars, poolVars, selVars>>

\* The REST server (package main of the http-rest-apis example)
VARIABLES
    users,      \* var users []User
    nextID,     \* var nextID
    req,        \* the request served last (method, path, body)
    resp,       \* what its ResponseWriter holds when the handler has returned
    conn        \* the requests being served concurrently, one goroutine each

serverVars == <<users, nextID, req, resp>>

\* Package calculator and its tests
VARIABLES
    a, b,       \* the arguments of a call
    ret,        \* the function called and the value it returned
    sub         \* TestAddParallel: the result each parallel subtest got

calcVars == <<a, b, ret, sub>>

\* The custom-types-and-methods program: main's account and the calls made
\* on it
VARIABLES
    account,    \* account := NewBankAccount(...): the struct it points to
    calls       \* the deposit and withdraw calls made so far; ok is what
                \* withdraw returned (deposit returns nothing: TRUE)

bankVars == <<account, calls>>

\* The functions-and-return-types program: a call of factorial
VARIABLES
    factArg,    \* the n of the call made by main
    factStack,  \* the n of every call of factorial that has not returned,
                \* the latest last
    factRet     \* the value the call that returned last gave, <<>> while
                \* the latest call has not returned

factVars == <<factArg, factStack, factRet>>

\* The pointers program
VARIABLES
    frames,     \* the call stack: the function, position and local
                \* variables of every call that has not returned
    heap,       \* the arrays that slices point into
    printed     \* the values printed so far

ptrVars == <<frames, heap, printed>>

\* The file-I/O program and the directory it runs in
VARIABLES
    disk,       \* the files of the current directory: whether each exists,
                \* and its lines
    fileRun     \* the run of the program: the example main calls next, the
                \* number of the run, whether every file operation of the
                \* run has succeeded so far

fileVars == <<disk, fileRun>>

\* The programs of the repository share nothing: a step of one leaves the
\* variables of the others alone.
notGoroutines == <<serverVars, conn, calcVars, bankVars, factVars, ptrVars, fileVars>>
notServer == <<vars, calcVars, bankVars, factVars, ptrVars, fileVars>>
notCalculator == <<vars, serverVars, conn, bankVars, factVars, ptrVars, fileVars>>
notBank == <<vars, serverVars, conn, calcVars, factVars, ptrVars, fileVars>>
notFactorial == <<vars, serverVars, conn, calcVars, bankVars, ptrVars, fileVars>>
notPointers == <<vars, serverVars, conn, calcVars, bankVars, factVars, fileVars>>
notFiles == <<vars, serverVars, conn, calcVars, bankVars, factVars, ptrVars>>
allVars == <<vars, serverVars, conn, calcVars, bankVars, factVars, ptrVars, fileVars>>

\* The process is alive: main has not returned and nothing panicked.
Running == pcMain # "exited" /\ ~crashed

\* ------------------------------------------------------------------------
\* Channel primitives
\* ------------------------------------------------------------------------
\* ch <- v on a buffered channel proceeds iff the buffer is not full.
CanSend(buf, cap) == Len(buf) < cap
\* <-ch on a buffered channel yields a value iff the buffer is not empty.
CanRecv(buf) == Len(buf) > 0

Init ==
    /\ pcMain = "start" /\ mi = 0 /\ crashed = FALSE
    /\ pcNum = "none" /\ numI = 0
    /\ pcLet = "none" /\ letI = 0
    /\ pcSend = "none" /\ sendI = 0 /\ chClosed = FALSE /\ recvd = <<>>
    /\ bch = <<>> /\ bout = <<>>
    /\ jobs = <<>> /\ jobsClosed = FALSE /\ results = <<>>
    /\ pcW = [w \in Workers |-> "none"]
    /\ wJob = [w \in Workers |-> 0]
    /\ received = <<>>
    /\ pcS = [k \in Senders |-> "none"]
    /\ selGot = <<>>

\* ------------------------------------------------------------------------
\* Example 1: basic goroutines
\* ------------------------------------------------------------------------
\* go printNumbers()
mainGoNumbers ==
    /\ Running /\ pcMain = "start"
    /\ pcNum' = "run"
    /\ pcMain' = "go_letters"
    /\ UNCHANGED <<mi, crashed, numI, pcLet, letI, chanVars, bufVars, poolVars, selVars>>
    /\ UNCHANGED notGoroutines

\* go printLetters()
mainGoLetters ==
    /\ Running /\ pcMain = "go_letters"
    /\ pcLet' = "run"
    /\ pcMain' = "sleep"
    /\ UNCHANGED <<mi, crashed, pcNum, numI, letI, chanVars, bufVars, poolVars, selVars>>
    /\ UNCHANGED notGoroutines

\* main calls time.Sleep(1 * time.Second)
mainSleep ==
    /\ Running /\ pcMain = "sleep"
    /\ pcMain' = "sleeping"
    /\ UNCHANGED <<mi, crashed, basicVars, chanVars, bufVars, poolVars, selVars>>
    /\ UNCHANGED notGoroutines

\* main's sleep is over: it prints "--- Channels ---" and makes ch
mainChannels ==
    /\ Running /\ pcMain = "sleeping"
    /\ pcMain' = "go_send"
    /\ UNCHANGED <<mi, crashed, basicVars, chanVars, bufVars, poolVars, selVars>>
    /\ UNCHANGED notGoroutines

\* printNumbers, one iteration: Printf("Number: %d"), time.Sleep(100ms)
printNumbers ==
    /\ Running /\ pcNum = "run" /\ numI < NumCount
    /\ numI' = numI + 1
    /\ UNCHANGED <<mainVars, pcNum, pcLet, letI, chanVars, bufVars, poolVars, selVars>>
    /\ UNCHANGED notGoroutines

\* printNumbers: the loop ends, the goroutine returns
printNumbersReturn ==
    /\ Running /\ pcNum = "run" /\ numI = NumCount
    /\ pcNum' = "done"
    /\ UNCHANGED <<mainVars, numI, pcLet, letI, chanVars, bufVars, poolVars, selVars>>
    /\ UNCHANGED notGoroutines

\* printLetters, one iteration: Printf("Letter: %s"), time.Sleep(150ms)
printLetters ==
    /\ Running /\ pcLet = "run" /\ letI < LetCount
    /\ letI' = letI + 1
    /\ UNCHANGED <<mainVars, pcNum, numI, pcLet, chanVars, bufVars, poolVars, selVars>>
    /\ UNCHANGED notGoroutines

\* printLetters: the loop ends, the goroutine returns
printLettersReturn ==
    /\ Running /\ pcLet = "run" /\ letI = LetCount
    /\ pcLet' = "done"
    /\ UNCHANGED <<mainVars, pcNum, numI, letI, chanVars, bufVars, poolVars, selVars>>
    /\ UNCHANGED notGoroutines

\* ------------------------------------------------------------------------
\* Example 2: unbuffered channel, sendData / receiveData
\* ------------------------------------------------------------------------
\* go sendData(ch); main enters receiveData(ch)
mainGoSend ==
    /\ Running /\ pcMain = "go_send"
    /\ pcSend' = "send"
    /\ sendI' = 1
    /\ pcMain' = "recv"
    /\ UNCHANGED <<mi, crashed, basicVars, chClosed, recvd, bufVars, poolVars, selVars>>
    /\ UNCHANGED notGoroutines

\* sendData: ch <- i meets receiveData's range: the value passes and
\* receiveData prints "Received"; sendData prints "Sent" and sleeps 100ms.
\* A send on a closed channel panics.
sendDataSend ==
    /\ Running /\ pcSend = "send"
    /\ IF chClosed
       THEN /\ crashed' = TRUE
            /\ UNCHANGED <<pcSend, recvd>>
       ELSE /\ pcMain = "recv"
            /\ recvd' = Append(recvd, sendI)
            /\ pcSend' = "sleep"
            /\ UNCHANGED crashed
    /\ UNCHANGED <<pcMain, mi, basicVars, sendI, chClosed, bufVars, poolVars, selVars>>
    /\ UNCHANGED notGoroutines

\* sendData: the sleep is over; i++ and the loop test
sendDataNext ==
    /\ Running /\ pcSend = "sleep"
    /\ IF sendI < SendCount
       THEN sendI' = sendI + 1 /\ pcSend' = "send"
       ELSE sendI' = sendI /\ pcSend' = "close"
    /\ UNCHANGED <<mainVars, basicVars, chClosed, recvd, bufVars, poolVars, selVars>>
    /\ UNCHANGED notGoroutines

\* a variant of sendDataClose that returns without closing ch
sendDataNoClose ==
    /\ Running /\ pcSend = "close"
    /\ pcSend' = "done"
    /\ UNCHANGED <<mainVars, basicVars, sendI, chClosed, recvd, bufVars, poolVars, selVars>>
    /\ UNCHANGED notGoroutines

\* sendData: close(ch), and the goroutine returns; closing a closed channel panics
sendDataClose ==
    /\ Running /\ pcSend = "close"
    /\ IF chClosed
       THEN crashed' = TRUE /\ UNCHANGED <<chClosed, pcSend>>
       ELSE chClosed' = TRUE /\ pcSend' = "done" /\ UNCHANGED crashed
    /\ UNCHANGED <<pcMain, mi, basicVars, sendI, recvd, bufVars, poolVars, selVars>>
    /\ UNCHANGED notGoroutines

\* receiveData: range ch ends once ch is closed (an unbuffered channel holds
\* nothing); main goes on to bufferedChannelExample
receiveDataReturn ==
    /\ Running /\ pcMain = "recv" /\ chClosed
    /\ pcMain' = "buf_send1"
    /\ UNCHANGED <<mi, crashed, basicVars, chanVars, bufVars, poolVars, selVars>>
    /\ UNCHANGED notGoroutines

\* ------------------------------------------------------------------------
\* Example 3: bufferedChannelExample
\* ------------------------------------------------------------------------
\* ch <- "first"
bufferedSend1 ==
    /\ Running /\ pcMain = "buf_send1" /\ CanSend(bch, BufCap)
    /\ bch' = Append(bch, "first")
    /\ pcMain' = "buf_send2"
    /\ UNCHANGED <<mi, crashed, basicVars, chanVars, bout, poolVars, selVars>>
    /\ UNCHANGED notGoroutines

\* ch <- "second"
bufferedSend2 ==
    /\ Running /\ pcMain = "buf_send2" /\ CanSend(bch, BufCap)
    /\ bch' = Append(bch, "second")
    /\ pcMain' = "buf_recv1"
    /\ UNCHANGED <<mi, crashed, basicVars, chanVars, bout, poolVars, selVars>>
    /\ UNCHANGED notGoroutines

\* fmt.Println(<-ch)
bufferedRecv1 ==
    /\ Running /\ pcMain = "buf_recv1" /\ CanRecv(bch)
    /\ bout' = Append(bout, Head(bch))
    /\ bch' = Tail(bch)
    /\ pcMain' = "buf_recv2"
    /\ UNCHANGED <<mi, crashed, basicVars, chanVars, poolVars, selVars>>
    /\ UNCHANGED notGoroutines

\* fmt.Println(<-ch); the function returns and workerPoolExample begins (w := 1)
bufferedRecv2 ==
    /\ Running /\ pcMain = "buf_recv2" /\ CanRecv(bch)
    /\ bout' = Append(bout, Head(bch))
    /\ bch' = Tail(bch)
    /\ pcMain' = "pool_spawn"
    /\ mi' = 1
    /\ UNCHANGED <<crashed, basicVars, chanVars, poolVars, selVars>>
    /\ UNCHANGED notGoroutines

\* ------------------------------------------------------------------------
\* Example 4: worker / workerPoolExample
\* ------------------------------------------------------------------------
\* a variant of Double that adds instead of multiplying
DoublePlus(job) == job + 2

\* job * 2
Double(job) == job * 2

\* go worker(w, jobs, results), for w := 1..3; then j := 1
poolSpawn ==
    /\ Running /\ pcMain = "pool_spawn"
    /\ pcW' = [pcW EXCEPT ![mi] = "range"]
    /\ IF mi < NumWorkers
       THEN mi' = mi + 1 /\ pcMain' = pcMain
       ELSE mi' = 1 /\ pcMain' = "pool_send"
    /\ UNCHANGED <<crashed, basicVars, chanVars, bufVars,
                   jobs, jobsClosed, results, wJob, received, selVars>>
    /\ UNCHANGED notGoroutines

\* jobs <- j, for j := 1..5; a send on a closed channel panics
poolSendJob ==
    /\ Running /\ pcMain = "pool_send"
    /\ IF jobsClosed
       THEN crashed' = TRUE /\ UNCHANGED <<jobs, mi, pcMain>>
       ELSE /\ CanSend(jobs, JobsCap)
            /\ jobs' = Append(jobs, mi)
            /\ IF mi < NumJobs
               THEN mi' = mi + 1 /\ pcMain' = pcMain
               ELSE mi' = mi /\ pcMain' = "pool_close"
            /\ UNCHANGED crashed
    /\ UNCHANGED <<basicVars, chanVars, bufVars,
                   jobsClosed, results, pcW, wJob, received, selVars>>
    /\ UNCHANGED notGoroutines

\* close(jobs); closing a closed channel panics; then a := 1
poolClose ==
    /\ Running /\ pcMain = "pool_close"
    /\ IF jobsClosed
       THEN crashed' = TRUE /\ UNCHANGED <<jobsClosed, mi, pcMain>>
       ELSE jobsClosed' = TRUE /\ mi' = 1 /\ pcMain' = "pool_collect" /\ UNCHANGED crashed
    /\ UNCHANGED <<basicVars, chanVars, bufVars, jobs, results, pcW, wJob, received, selVars>>
    /\ UNCHANGED notGoroutines

\* result := <-results; Printf("Result: %d"), for a := 1..5
poolCollect ==
    /\ Running /\ pcMain = "pool_collect" /\ CanRecv(results)
    /\ received' = Append(received, Head(results))
    /\ results' = Tail(results)
    /\ IF mi < NumCollect
       THEN mi' = mi + 1 /\ pcMain' = pcMain
       ELSE mi' = mi /\ pcMain' = "pool_ret"
    /\ UNCHANGED <<crashed, basicVars, chanVars, bufVars, jobs, jobsClosed, pcW, wJob, selVars>>
    /\ UNCHANGED notGoroutines

\* workerPoolExample returns, its locals are gone; selectExample begins
poolReturn ==
    /\ Running /\ pcMain = "pool_ret"
    /\ received' = <<>>
    /\ mi' = 0
    /\ pcMain' = "sel_spawn1"
    /\ UNCHANGED <<crashed, basicVars, chanVars, bufVars,
                   jobs, jobsClosed, results, pcW, wJob, selVars>>
    /\ UNCHANGED notGoroutines

\* worker: range jobs yields a job; Printf("Worker %d processing job %d");
\* time.Sleep(100ms)
workerTake(w) ==
    /\ Running /\ pcW[w] = "range" /\ CanRecv(jobs)
    /\ wJob' = [wJob EXCEPT ![w] = Head(jobs)]
    /\ jobs' = Tail(jobs)
    /\ pcW' = [pcW EXCEPT ![w] = "work"]
    /\ UNCHANGED <<mainVars, basicVars, chanVars, bufVars,
                   jobsClosed, results, received, selVars>>
    /\ UNCHANGED notGoroutines

\* a variant of workerReturn that takes an empty jobs buffer for the end
workerReturnOnEmpty(w) ==
    /\ Running /\ pcW[w] = "range" /\ ~CanRecv(jobs)
    /\ pcW' = [pcW EXCEPT ![w] = "done"]
    /\ UNCHANGED <<mainVars, basicVars, chanVars, bufVars,
                   jobs, jobsClosed, results, wJob, received, selVars>>
    /\ UNCHANGED notGoroutines

\* worker: range jobs ends, jobs is closed and drained; the goroutine returns
workerReturn(w) ==
    /\ Running /\ pcW[w] = "range" /\ ~CanRecv(jobs) /\ jobsClosed
    /\ pcW' = [pcW EXCEPT ![w] = "done"]
    /\ UNCHANGED <<mainVars, basicVars, chanVars, bufVars,
                   jobs, jobsClosed, results, wJob, received, selVars>>
    /\ UNCHANGED notGoroutines

\* worker: the sleep is over; results <- job * 2
workerSend(w) ==
    /\ Running /\ pcW[w] = "work" /\ CanSend(results, ResultsCap)
    /\ results' = Append(results, Double(wJob[w]))
    /\ wJob' = [wJob EXCEPT ![w] = 0]
    /\ pcW' = [pcW EXCEPT ![w] = "range"]
    /\ UNCHANGED <<mainVars, basicVars, chanVars, bufVars,
                   jobs, jobsClosed, received, selVars>>
    /\ UNCHANGED notGoroutines

\* ------------------------------------------------------------------------
\* Example 5: selectExample
\* ------------------------------------------------------------------------
\* go func() { time.Sleep(100ms); ch1 <- ... }()
selectSpawn1 ==
    /\ Running /\ pcMain = "sel_spawn1"
    /\ pcS' = [pcS EXCEPT ![1] = "sleep"]
    /\ pcMain' = "sel_spawn2"
    /\ UNCHANGED <<mi, crashed, basicVars, chanVars, bufVars, poolVars, selGot>>
    /\ UNCHANGED notGoroutines

\* go func() { time.Sleep(200ms); ch2 <- ... }(); main enters the loop, i := 0
selectSpawn2 ==
    /\ Running /\ pcMain = "sel_spawn2"
    /\ pcS' = [pcS EXCEPT ![2] = "sleep"]
    /\ pcMain' = "select"
    /\ UNCHANGED <<mi, crashed, basicVars, chanVars, bufVars, poolVars, selGot>>
    /\ UNCHANGED notGoroutines

\* goroutine k: its sleep is over, it reaches ch_k <- "Message from channel k"
selectSenderWake(k) ==
    /\ Running /\ pcS[k] = "sleep"
    /\ pcS' = [pcS EXCEPT ![k] = "send"]
    /\ UNCHANGED <<mainVars, basicVars, chanVars, bufVars, poolVars, selGot>>
    /\ UNCHANGED notGoroutines

\* the send on the unbuffered ch_k meets main's select, which takes that case
\* and prints the message; goroutine k returns; i++ and the loop test
selectRecv(k) ==
    /\ Running /\ pcMain = "select" /\ pcS[k] = "send"
    /\ selGot' = Append(selGot, k)
    /\ pcS' = [pcS EXCEPT ![k] = "done"]
    /\ IF mi + 1 < SelCount
       THEN mi' = mi + 1 /\ pcMain' = pcMain
       ELSE mi' = mi /\ pcMain' = "final"
    /\ UNCHANGED <<crashed, basicVars, chanVars, bufVars, poolVars>>
    /\ UNCHANGED notGoroutines

\* selectExample returned; main prints "All examples completed!" and returns:
\* the process exits
mainReturn ==
    /\ Running /\ pcMain = "final"
    /\ pcMain' = "exited"
    /\ UNCHANGED <<mi, crashed, basicVars, chanVars, bufVars, poolVars, selVars>>
    /\ UNCHANGED notGoroutines

\* ------------------------------------------------------------------------
\* The program
\* ------------------------------------------------------------------------
\* the steps of the main goroutine that involve no other goroutine
main ==
    \/ mainGoNumbers \/ mainGoLetters \/ mainSleep \/ mainChannels
    \/ mainGoSend \/ receiveDataReturn
    \/ bufferedSend1 \/ bufferedSend2 \/ bufferedRecv1 \/ bufferedRecv2
    \/ poolSpawn \/ poolSendJob \/ poolClose \/ poolCollect \/ poolReturn
    \/ selectSpawn1 \/ selectSpawn2 \/ mainReturn

sendData == sendDataSend \/ sendDataNext \/ sendDataClose

worker(w) == workerTake(w) \/ workerSend(w) \/ workerReturn(w)

selectSender(k) == selectSenderWake(k) \/ selectRecv(k)

Next ==
    \/ main
    \/ printNumbers \/ printNumbersReturn
    \/ printLetters \/ printLettersReturn
    \/ sendData
    \/ \E w \in Workers : worker(w)
    \/ \E k \in Senders : selectSender(k)

\* ------------------------------------------------------------------------
\* The REST server: users, nextID, the handlers, the middleware, the routes
\* ------------------------------------------------------------------------
\* net/http's status codes
StatusOK == 200
StatusCreated == 201
StatusBadRequest == 400
StatusNotFound == 404
StatusMethodNotAllowed == 405

\* the first ID a created user gets: var nextID = 4
FirstNextID == 4

\* Bounds of the requests the model sends
MaxNextID == 6          \* no user is created once nextID has this value
MaxSegLen == 2          \* characters of the path after "/api/users/"

\* type User; CreatedAt (time.Now()) is left out: no handler reads it
User(id, name, email) == [ID |-> id, Name |-> name, Email |-> email]

\* var users = []User{...}
InitialUsers ==
    << User(1, "Alice Johnson", "alice@example.com"),
       User(2, "Bob Smith", "bob@example.com"),
       User(3, "Charlie Brown", "charlie@example.com") >>

\* A URL path is a sequence of tokens: the prefix "/api/users" and the word
\* "create" are one token each, every other character is a token.
PathUsers == <<"/api/users">>
PathUsersSlash == <<"/api/users", "/">>
PathCreate == <<"/api/users", "/", "create">>

HasPrefix(path, prefix) ==
    Len(path) >= Len(prefix) /\ SubSeq(path, 1, Len(prefix)) = prefix

\* a variant of Pattern in which the subtree pattern "/api/users/" wins over
\* the longer pattern "/api/users/create"
PatternSubtreeFirst(path) ==
    IF path = PathUsers THEN "/api/users"
    ELSE IF HasPrefix(path, PathUsersSlash) THEN "/api/users/"
    ELSE "/"

\* http.ServeMux: a pattern ending in "/" matches every path it is a prefix
\* of, any other pattern matches one path, and the longest match wins
Pattern(path) ==
    IF path = PathCreate THEN "/api/users/create"
    ELSE IF path = PathUsers THEN "/api/users"
    ELSE IF HasPrefix(path, PathUsersSlash) THEN "/api/users/"
    ELSE "/"

\* strconv.Atoi: an optional sign and then one decimal digit or more
Digit == <<"0", "1", "2", "3", "4", "5", "6", "7", "8", "9">>
Digits == {Digit[i] : i \in 1..Len(Digit)}
DigitVal(c) == (CHOOSE i \in 1..Len(Digit) : Digit[i] = c) - 1

RECURSIVE Decimal(_)
Decimal(s) ==
    IF s = <<>> THEN 0
    ELSE 10 * Decimal(SubSeq(s, 1, Len(s) - 1)) + DigitVal(s[Len(s)])

Atoi(s) ==
    LET signed == s # <<>> /\ Head(s) \in {"+", "-"}
        digits == IF signed THEN Tail(s) ELSE s
    IN  IF digits = <<>> \/ \E i \in 1..Len(digits) : digits[i] \notin Digits
        THEN [err |-> TRUE, id |-> 0]
        ELSE [err |-> FALSE,
              id |-> IF Head(s) = "-" THEN 0 - Decimal(digits) ELSE Decimal(digits)]

\* r.URL.Path[len("/api/users/"):]
IDStr(path) == SubSeq(path, Len(PathUsersSlash) + 1, Len(path))

\* A request body: bytes that cannot be read, bytes that are no JSON object
\* for a User (the empty body is one), or a JSON object; a key the object
\* does not have leaves the field at its zero value.
EmptyBody == [kind |-> "malformed", id |-> 0, name |-> "", email |-> ""]
UnreadableBody == [kind |-> "unreadable", id |-> 0, name |-> "", email |-> ""]
Object(id, name, email) == [kind |-> "object", id |-> id, name |-> name, email |-> email]

\* io.ReadAll(r.Body)
ReadAll(body) == [err |-> body.kind = "unreadable"]

\* json.Unmarshal(body, &newUser)
Unmarshal(body) ==
    [err |-> body.kind # "object", user |-> User(body.id, body.name, body.email)]

\* type Response, and the three kinds of value its Data holds
\* a variant of Response that claims success whatever happened
ResponseTrue(success, message, data) ==
    [Success |-> TRUE, Message |-> message, Data |-> data]

Response(success, message, data) ==
    [Success |-> success, Message |-> message, Data |-> data]
NoData == [kind |-> "nil", items |-> <<>>]
DataUsers(us) == [kind |-> "list", items |-> us]
DataUser(u) == [kind |-> "user", items |-> <<u>>]

\* json.NewEncoder(w).Encode(response): "success" always, "message" and
\* "data" unless empty (omitempty: the empty string, the nil interface)
Encode(response) ==
    [keys |-> {"success"}
                \cup (IF response.Message # "" THEN {"message"} ELSE {})
                \cup (IF response.Data.kind # "nil" THEN {"data"} ELSE {}),
     success |-> response.Success,
     message |-> response.Message,
     data |-> response.Data]

\* A handler works on the package variables and on its ResponseWriter w;
\* ran lists the handlers that were entered.
NewWriter == [status |-> 0, header |-> {}, body |-> <<>>]
World == [users |-> users, nextID |-> nextID, w |-> NewWriter, ran |-> <<>>]

Enter(W, name) == [W EXCEPT !.ran = Append(@, name)]

\* w.Header().Set(key, value)
SetHeader(W, key, value) ==
    [W EXCEPT !.w.header = {h \in @ : h[1] # key} \cup {<<key, value>>}]

\* w.WriteHeader(statusCode): the first call decides the status
WriteHeader(W, statusCode) ==
    [W EXCEPT !.w.status = IF @ = 0 THEN statusCode ELSE @]

\* a variant of sendJSONResponse that always writes 200
sendJSONResponseOK(W, statusCode, response) ==
    LET H == SetHeader(W, "Content-Type", "application/json")
        S == WriteHeader(H, StatusOK)
    IN  [S EXCEPT !.w.body = Append(@, Encode(response))]

sendJSONResponse(W, statusCode, response) ==
    LET H == SetHeader(W, "Content-Type", "application/json")
        S == WriteHeader(H, statusCode)
    IN  [S EXCEPT !.w.body = Append(@, Encode(response))]

MethodNotAllowed(W) ==
    sendJSONResponse(W, StatusMethodNotAllowed,
                     Response(FALSE, "Method not allowed", NoData))

\* for i, user := range users { if user.ID == id: the first index (from 1)
\* with that ID, 0 if there is none
Find(us, id) ==
    IF \E i \in 1..Len(us) : us[i].ID = id
    THEN CHOOSE i \in 1..Len(us) :
            us[i].ID = id /\ \A j \in 1..(i - 1) : us[j].ID # id
    ELSE 0

getUsersHandler(W0, r) ==
    LET W == Enter(W0, "getUsersHandler")
    IN  IF r.method # "GET" THEN MethodNotAllowed(W)
        ELSE sendJSONResponse(W, StatusOK, Response(TRUE, "", DataUsers(W.users)))

getUserByIDHandler(W0, r) ==
    LET W == Enter(W0, "getUserByIDHandler")
        conv == Atoi(IDStr(r.path))
        i == Find(W.users, conv.id)
    IN  IF r.method # "GET" THEN MethodNotAllowed(W)
        ELSE IF conv.err
        THEN sendJSONResponse(W, StatusBadRequest,
                              Response(FALSE, "Invalid user ID", NoData))
        ELSE IF i # 0
        THEN sendJSONResponse(W, StatusOK, Response(TRUE, "", DataUser(W.users[i])))
        ELSE sendJSONResponse(W, StatusNotFound,
                              Response(FALSE, "User not found", NoData))

\* a variant of createUserHandler's "Create user" that keeps the ID of the body
NewUserKeepID(parsed, id) == parsed

\* a variant of "Create user" that gives the ID before nextID
NewUserLastID(parsed, id) == [parsed EXCEPT !.ID = id - 1]

\* newUser.ID = nextID
NewUser(parsed, id) == [parsed EXCEPT !.ID = id]

\* a variant of createUserHandler that takes the ID (nextID++) before it
\* validates the body
createUserHandlerCountsFirst(W0, r) ==
    LET W == Enter(W0, "createUserHandler")
        parsed == Unmarshal(r.body)
        newUser == NewUser(parsed.user, W.nextID)
        counted == [W EXCEPT !.nextID = @ + 1]
        created == [counted EXCEPT !.users = Append(@, newUser)]
    IN  IF r.method # "POST" THEN MethodNotAllowed(W)
        ELSE IF ReadAll(r.body).err \/ parsed.err
                \/ parsed.user.Name = "" \/ parsed.user.Email = ""
        THEN sendJSONResponse(counted, StatusBadRequest,
                              Response(FALSE, "Invalid request", NoData))
        ELSE sendJSONResponse(created, StatusCreated,
                              Response(TRUE, "User created successfully",
                                       DataUser(newUser)))

createUserHandler(W0, r) ==
    LET W == Enter(W0, "createUserHandler")
        parsed == Unmarshal(r.body)
        newUser == NewUser(parsed.user, W.nextID)
        created == [W EXCEPT !.nextID = @ + 1, !.users = Append(@, newUser)]
    IN  IF r.method # "POST" THEN MethodNotAllowed(W)
        ELSE IF ReadAll(r.body).err
        THEN sendJSONResponse(W, StatusBadRequest,
                              Response(FALSE, "Error reading request body", NoData))
        ELSE IF parsed.err
        THEN sendJSONResponse(W, StatusBadRequest,
                              Response(FALSE, "Invalid JSON format", NoData))
        ELSE IF parsed.user.Name = "" \/ parsed.user.Email = ""
        THEN sendJSONResponse(W, StatusBadRequest,
                              Response(FALSE, "Name and email are required", NoData))
        ELSE sendJSONResponse(created, StatusCreated,
                              Response(TRUE, "User created successfully",
                                       DataUser(newUser)))

\* a variant of Remove that cuts the slice off at index i
RemoveFrom(us, i) == SubSeq(us, 1, i - 1)

\* append(users[:i], users[i+1:]...), i counted from 1
Remove(us, i) == SubSeq(us, 1, i - 1) \o SubSeq(us, i + 1, Len(us))

deleteUserHandler(W0, r) ==
    LET W == Enter(W0, "deleteUserHandler")
        conv == Atoi(IDStr(r.path))
        i == Find(W.users, conv.id)
    IN  IF r.method # "DELETE" THEN MethodNotAllowed(W)
        ELSE IF conv.err
        THEN sendJSONResponse(W, StatusBadRequest,
                              Response(FALSE, "Invalid user ID", NoData))
        ELSE IF i # 0
        THEN sendJSONResponse([W EXCEPT !.users = Remove(@, i)], StatusOK,
                              Response(TRUE, "User deleted successfully", NoData))
        ELSE sendJSONResponse(W, StatusNotFound,
                              Response(FALSE, "User not found", NoData))

\* A handler value (an http.HandlerFunc) is the chain of function names it
\* stands for, outermost first: withMiddleware(h) is corsMiddleware around
\* loggingMiddleware around h.  Call(h, W, r) is the call h(w, r).
RECURSIVE Call(_, _, _)

\* loggingMiddleware: log lines around next
loggingMiddleware(next, W, r) == Call(next, W, r)

\* the three headers corsMiddleware sets
CORSHeaders ==
    { <<"Access-Control-Allow-Origin", "*">>,
      <<"Access-Control-Allow-Methods", "GET, POST, DELETE, OPTIONS">>,
      <<"Access-Control-Allow-Headers", "Content-Type">> }

\* corsMiddleware: the headers, then 200 with no body for OPTIONS, next otherwise
corsMiddleware(next, W0, r) ==
    LET W1 == SetHeader(W0, "Access-Control-Allow-Origin", "*")
        W2 == SetHeader(W1, "Access-Control-Allow-Methods", "GET, POST, DELETE, OPTIONS")
        W == SetHeader(W2, "Access-Control-Allow-Headers", "Content-Type")
    IN  IF r.method = "OPTIONS" THEN WriteHeader(W, StatusOK) ELSE Call(next, W, r)

Call(h, W, r) ==
    CASE Head(h) = "corsMiddleware" -> corsMiddleware(Tail(h), W, r)
      [] Head(h) = "loggingMiddleware" -> loggingMiddleware(Tail(h), W, r)
      [] Head(h) = "getUsersHandler" -> getUsersHandler(W, r)
      [] Head(h) = "getUserByIDHandler" -> getUserByIDHandler(W, r)
      [] Head(h) = "createUserHandler" -> createUserHandler(W, r)
      [] Head(h) = "deleteUserHandler" -> deleteUserHandler(W, r)

\* withMiddleware: corsMiddleware(loggingMiddleware(handler))
withMiddleware(handler) == <<"corsMiddleware", "loggingMiddleware">> \o handler

\* main's handler for "/api/users/"
usersSubtree(W, r) ==
    IF r.path = PathUsersSlash \/ r.path = PathUsers
    THEN Call(withMiddleware(<<"getUsersHandler">>), W, r)
    ELSE IF r.method = "GET" THEN Call(withMiddleware(<<"getUserByIDHandler">>), W, r)
    ELSE IF r.method = "DELETE" THEN Call(withMiddleware(<<"deleteUserHandler">>), W, r)
    ELSE MethodNotAllowed(W)

\* The requests the model sends
Methods == {"GET", "POST", "DELETE", "OPTIONS", "PUT"}
SegChars == {"2", "4", "-", "x"}
Segments == UNION {[1..n -> SegChars] : n \in 0..MaxSegLen}
Paths == {PathUsers, PathCreate} \cup {PathUsersSlash \o s : s \in Segments}
ValidBody == Object(0, "Jane Doe", "jane@example.com")
Bodies ==
    { EmptyBody, UnreadableBody, ValidBody,
      Object(0, "", "jane@example.com"), Object(0, "Jane Doe", ""),
      Object(1, "Jane Doe", "jane@example.com") }
\* every method on every path; a POST carries a body, every kind of body to
\* the path that reads it
Requests ==
    {[method |-> m, path |-> p, body |-> EmptyBody] : m \in Methods \ {"POST"}, p \in Paths}
    \cup {[method |-> "POST", path |-> p, body |-> ValidBody] : p \in Paths}
    \cup {[method |-> "POST", path |-> PathCreate, body |-> bd] : bd \in Bodies}

NoRequest == [method |-> "", path |-> <<>>, body |-> EmptyBody]

ServerInit ==
    /\ users = InitialUsers
    /\ nextID = FirstNextID
    /\ req = NoRequest
    /\ resp = [status |-> 0, header |-> {}, body |-> <<>>, ran |-> <<>>]

\* the server has served r: the handler chain took World to out
Served(r, out) ==
    /\ req' = r
    /\ users' = out.users
    /\ nextID' = out.nextID
    /\ resp' = [status |-> out.w.status, header |-> out.w.header,
                body |-> out.w.body, ran |-> out.ran]
    /\ UNCHANGED <<conn, notServer>>

\* http.HandleFunc("/api/users", withMiddleware(getUsersHandler))
serveUsers ==
    \E r \in Requests :
        /\ Pattern(r.path) = "/api/users"
        /\ Served(r, Call(withMiddleware(<<"getUsersHandler">>), World, r))

\* http.HandleFunc("/api/users/", func ...)
serveUsersSubtree ==
    \E r \in Requests :
        /\ Pattern(r.path) = "/api/users/"
        /\ Served(r, usersSubtree(World, r))

\* http.HandleFunc("/api/users/create", withMiddleware(createUserHandler))
serveCreate ==
    \E r \in Requests :
        /\ Pattern(r.path) = "/api/users/create"
        /\ LET out == Call(withMiddleware(<<"createUserHandler">>), World, r)
           IN  out.nextID <= MaxNextID /\ Served(r, out)

\* http.ListenAndServe, one request at a time
ServerNext == serveUsers \/ serveUsersSubtree \/ serveCreate

\* ------------------------------------------------------------------------
\* The REST server under net/http: every request is served in a goroutine of
\* its own, and createUserHandler and deleteUserHandler read and write users
\* and nextID with no lock.  A step is one read or one write of users or
\* nextID by one handler.  A slice is taken as its value; in the program two
\* handlers can also hold slices that share a backing array and disturb each
\* other through it, which this model leaves out.
\* ------------------------------------------------------------------------
NumConns == 2           \* requests served at the same time
Conns == 1..NumConns

\* the IDs the concurrent DELETE requests name
DeleteIDs == {1, 3, 4}

Idle == [pc |-> "idle", kind |-> "", id |-> 0, tmp |-> 0, snap |-> <<>>, i |-> 0, status |-> 0]

ConnInit == conn = [c \in Conns |-> Idle]

\* conn c alone takes a step to record next
ConnStep(c, next) ==
    /\ conn' = [conn EXCEPT ![c] = next]
    /\ UNCHANGED <<req, resp, notServer>>

\* a valid POST /api/users/create arrives and passes method, body and
\* validation checks
acceptCreate(c) ==
    /\ conn[c].pc = "idle"
    /\ ConnStep(c, [Idle EXCEPT !.pc = "create_id", !.kind = "create"])
    /\ UNCHANGED <<users, nextID>>

\* a DELETE /api/users/{id} with an integer id arrives
acceptDelete(c) ==
    \E id \in DeleteIDs :
        /\ conn[c].pc = "idle"
        /\ ConnStep(c, [Idle EXCEPT !.pc = "delete_range", !.kind = "delete", !.id = id])
        /\ UNCHANGED <<users, nextID>>

\* newUser.ID = nextID: nextID is read
createReadID(c) ==
    /\ conn[c].pc = "create_id"
    /\ ConnStep(c, [conn[c] EXCEPT !.pc = "create_load", !.id = nextID])
    /\ UNCHANGED <<users, nextID>>

\* nextID++: nextID is read ...
createLoadNextID(c) ==
    /\ conn[c].pc = "create_load"
    /\ ConnStep(c, [conn[c] EXCEPT !.pc = "create_store", !.tmp = nextID])
    /\ UNCHANGED <<users, nextID>>

\* ... and written
createStoreNextID(c) ==
    /\ conn[c].pc = "create_store"
    /\ nextID' = conn[c].tmp + 1
    /\ ConnStep(c, [conn[c] EXCEPT !.pc = "create_append"])
    /\ UNCHANGED users

\* users = append(users, newUser): users is read ...
createLoadUsers(c) ==
    /\ conn[c].pc = "create_append"
    /\ ConnStep(c, [conn[c] EXCEPT !.pc = "create_write", !.snap = users])
    /\ UNCHANGED <<users, nextID>>

\* ... and written; the handler answers 201 with newUser
createStoreUsers(c) ==
    /\ conn[c].pc = "create_write"
    /\ users' = Append(conn[c].snap,
                       NewUser(User(0, "Jane Doe", "jane@example.com"), conn[c].id))
    /\ ConnStep(c, [conn[c] EXCEPT !.pc = "done", !.status = StatusCreated])
    /\ UNCHANGED nextID

\* for i, user := range users: users is read once, the loop runs on that
\* value; no user has the id: the handler answers 404
deleteRangeNotFound(c) ==
    /\ conn[c].pc = "delete_range"
    /\ Find(users, conn[c].id) = 0
    /\ ConnStep(c, [conn[c] EXCEPT !.pc = "done", !.snap = users,
                                   !.status = StatusNotFound])
    /\ UNCHANGED <<users, nextID>>

\* the loop finds the id at index i
deleteRangeFound(c) ==
    /\ conn[c].pc = "delete_range"
    /\ Find(users, conn[c].id) # 0
    /\ ConnStep(c, [conn[c] EXCEPT !.pc = "delete_slice", !.snap = users,
                                   !.i = Find(users, conn[c].id)])
    /\ UNCHANGED <<users, nextID>>

\* append(users[:i], users[i+1:]...): users is read again
deleteLoadUsers(c) ==
    /\ conn[c].pc = "delete_slice"
    /\ conn[c].i <= Len(users)
    /\ ConnStep(c, [conn[c] EXCEPT !.pc = "delete_write", !.snap = users])
    /\ UNCHANGED <<users, nextID>>

\* users[i+1:] of a slice that has become shorter than i+1: the handler
\* panics, net/http recovers and closes the connection without an answer
deletePanic(c) ==
    /\ conn[c].pc = "delete_slice"
    /\ conn[c].i > Len(users)
    /\ ConnStep(c, [conn[c] EXCEPT !.pc = "panicked"])
    /\ UNCHANGED <<users, nextID>>

\* users = ...: users is written; the handler answers 200
deleteStoreUsers(c) ==
    /\ conn[c].pc = "delete_write"
    /\ users' = Remove(conn[c].snap, conn[c].i)
    /\ ConnStep(c, [conn[c] EXCEPT !.pc = "done", !.status = StatusOK])
    /\ UNCHANGED nextID

createUser(c) ==
    \/ acceptCreate(c) \/ createReadID(c)
    \/ createLoadNextID(c) \/ createStoreNextID(c)
    \/ createLoadUsers(c) \/ createStoreUsers(c)

deleteUser(c) ==
    \/ acceptDelete(c) \/ deleteRangeNotFound(c) \/ deleteRangeFound(c)
    \/ deleteLoadUsers(c) \/ deletePanic(c) \/ deleteStoreUsers(c)

\* the server with NumConns requests in service
ConcurrentNext == \E c \in Conns : createUser(c) \/ deleteUser(c)

\* ------------------------------------------------------------------------
\* Package calculator and its tests
\* ------------------------------------------------------------------------
\* The arguments the model calls the functions with: -MaxArg..MaxArg.  Every
\* value the functions compute from them lies far inside the range of Go's
\* int, so the arithmetic of int is the arithmetic of the integers here.
MaxArg == 10
Args == (0 - MaxArg)..MaxArg

Abs(x) == IF x < 0 THEN 0 - x ELSE x

\* a call returns a value (an int, or a bool from IsEven), or the runtime
\* panics
Returns(v) == [val |-> v, panic |-> FALSE]
RuntimePanic == [val |-> 0, panic |-> TRUE]

\* a variant of Quo that rounds down, as \div does
QuoFloor(x, y) == x \div y

\* Go's x / y on integers, y # 0: the quotient truncated toward zero
Quo(x, y) ==
    IF (x < 0) = (y < 0) THEN Abs(x) \div Abs(y) ELSE 0 - (Abs(x) \div Abs(y))

\* the expression a / b: division by zero is a run-time panic
IntDiv(x, y) == IF y = 0 THEN RuntimePanic ELSE Returns(Quo(x, y))

\* a variant of Add that is one off
AddOff(x, y) == x + y + 1

Add(x, y) == x + y

Subtract(x, y) == x - y

Multiply(x, y) == x * y

\* a variant of Divide without the test for zero
DivideUnguarded(x, y) == IntDiv(x, y)

Divide(x, y) == IF y = 0 THEN Returns(0) ELSE IntDiv(x, y)

\* a variant of Fibonacci whose base case is n <= 0
RECURSIVE FibonacciBaseZero(_)
FibonacciBaseZero(n) ==
    IF n <= 0 THEN n ELSE FibonacciBaseZero(n - 1) + FibonacciBaseZero(n - 2)

RECURSIVE Fibonacci(_)
Fibonacci(n) ==
    IF n <= 1 THEN n ELSE Fibonacci(n - 1) + Fibonacci(n - 2)

\* Go's x % y on integers, y # 0: the remainder of the truncated division,
\* zero or of the sign of x
Rem(x, y) == x - Quo(x, y) * y

\* a variant of IsEven that tests for "not odd" by n%2 != 1
IsEvenNotOne(n) == Rem(n, 2) # 1

IsEven(n) == Rem(n, 2) = 0

\* TestAddParallel's table; its subtests call t.Parallel() and run at the
\* same time
ParallelTests ==
    << [a |-> 1, b |-> 1, expected |-> 2],
       [a |-> 2, b |-> 2, expected |-> 4],
       [a |-> 3, b |-> 3, expected |-> 6] >>
Subtests == 1..Len(ParallelTests)

NoCall == [fn |-> "", val |-> 0, panic |-> FALSE]
NotRun == [done |-> FALSE, result |-> 0]

\* no call is made
CalcIdle ==
    /\ a = 0 /\ b = 0
    /\ ret = NoCall
    /\ sub = [t \in Subtests |-> NotRun]

\* fn(a, b) was called and gave out
Called(fn, out) ==
    /\ ret' = [fn |-> fn, val |-> out.val, panic |-> out.panic]
    /\ UNCHANGED <<a, b, sub, notCalculator>>

callAdd == Called("Add", Returns(Add(a, b)))

callSubtract == Called("Subtract", Returns(Subtract(a, b)))

callMultiply == Called("Multiply", Returns(Multiply(a, b)))

callDivide == Called("Divide", Divide(a, b))

\* Fibonacci(a)
callFibonacci == Called("Fibonacci", Returns(Fibonacci(a)))

\* IsEven(a)
callIsEven == Called("IsEven", Returns(IsEven(a)))

\* subtest t of TestAddParallel: result := Add(tt.a, tt.b), in its own
\* goroutine, whatever the other subtests and callers are doing
runParallel(t) ==
    /\ ~sub[t].done
    /\ sub' = [sub EXCEPT ![t] = [done |-> TRUE,
                                  result |-> Add(ParallelTests[t].a, ParallelTests[t].b)]]
    /\ UNCHANGED <<a, b, ret, notCalculator>>

CalcNext ==
    \/ callAdd \/ callSubtract \/ callMultiply \/ callDivide \/ callFibonacci
    \/ callIsEven
    \/ \E t \in Subtests : runParallel(t)

\* ------------------------------------------------------------------------
\* The custom-types-and-methods program: type BankAccount
\* ------------------------------------------------------------------------
\* Amounts of money are float64 in the program.  The model's amounts are
\* whole numbers of dollars far below 2^53, which float64 holds exactly and
\* adds and subtracts without rounding.
MaxCalls == 3           \* calls made on the account

\* the amounts the model deposits and withdraws: those of main, zero and a
\* negative one
Amounts == {-200, 0, 200, 500, 2000}

\* NewBankAccount(owner, initialBalance): the struct the pointer leads to
NewBankAccount(owner, initialBalance) ==
    [owner |-> owner, balance |-> initialBalance]

\* func (ba *BankAccount) deposit(amount): the struct after the call
deposit(ba, amount) ==
    IF amount > 0 THEN [ba EXCEPT !.balance = @ + amount] ELSE ba

\* a variant of withdraw without the test amount > 0, as the shortened
\* example of the README has it
withdrawAnyAmount(ba, amount) ==
    IF amount <= ba.balance
    THEN [ba |-> [ba EXCEPT !.balance = @ - amount], ok |-> TRUE]
    ELSE [ba |-> ba, ok |-> FALSE]

\* func (ba *BankAccount) withdraw(amount) bool: the struct after the call
\* and the value returned
withdraw(ba, amount) ==
    IF amount > 0 /\ amount <= ba.balance
    THEN [ba |-> [ba EXCEPT !.balance = @ - amount], ok |-> TRUE]
    ELSE [ba |-> ba, ok |-> FALSE]

\* func (ba BankAccount) getBalance()
getBalance(ba) == ba.balance

\* main: account := NewBankAccount("Alice Brown", 1000.00)
BankIdle ==
    /\ account = NewBankAccount("Alice Brown", 1000)
    /\ calls = <<>>

\* account.deposit(amount)
callDeposit ==
    \E amount \in Amounts :
        /\ Len(calls) < MaxCalls
        /\ account' = deposit(account, amount)
        /\ calls' = Append(calls, [op |-> "deposit", amount |-> amount, ok |-> TRUE])
        /\ UNCHANGED notBank

\* account.withdraw(amount)
callWithdraw ==
    \E amount \in Amounts :
        LET out == withdraw(account, amount)
        IN  /\ Len(calls) < MaxCalls
            /\ account' = out.ba
            /\ calls' = Append(calls, [op |-> "withdraw", amount |-> amount, ok |-> out.ok])
            /\ UNCHANGED notBank

BankNext == callDeposit \/ callWithdraw

\* main: account.deposit(500.00); account.withdraw(200.00);
\* account.withdraw(2000.00)
MainCalls == << <<"deposit", 500>>, <<"withdraw", 200>>, <<"withdraw", 2000>> >>

\* ------------------------------------------------------------------------
\* The functions-and-return-types program: func factorial(n int) int
\* ------------------------------------------------------------------------
\* int is 64 bits wide (as on every 64-bit platform), and n * factorial(n-1)
\* keeps the low 64 bits of the product.  A natural number is held as the
\* sequence of its digits to the base 2^16, lowest first, without leading
\* zeros; a value of int is its two's-complement bit pattern, four digits.
MaxFactArg == 22        \* factorial is called with n in -MaxFactArg..MaxFactArg
FactArgs == (0 - MaxFactArg)..MaxFactArg

DigitBase == 2^16
WordDigits == 64 \div 16

\* the digits of x * k + c, for a natural number x and small naturals k >= 1
\* and c
RECURSIVE MulAdd(_, _, _)
MulAdd(x, k, c) ==
    IF x = <<>>
    THEN IF c = 0 THEN <<>> ELSE <<c % DigitBase>> \o MulAdd(<<>>, k, c \div DigitBase)
    ELSE LET t == Head(x) * k + c
         IN  <<t % DigitBase>> \o MulAdd(Tail(x), k, t \div DigitBase)

\* the low 64 bits of the natural number x
Low64(x) == [i \in 1..WordDigits |-> IF i <= Len(x) THEN x[i] ELSE 0]

\* the int 1
One64 == Low64(<<1>>)

\* n * w on int, for n >= 1 and w >= 0 as bit patterns: the product wraps
\* around at 2^64
Mul64(n, w) == Low64(MulAdd(w, n, 0))

\* main calls factorial(n); no call is in progress
FactIdle ==
    /\ factArg = 0
    /\ factStack = <<>>
    /\ factRet = <<>>

\* the latest call has just been made: its n is on top of the stack
AtEntry == factStack # <<>> /\ factRet = <<>>
Top == factStack[Len(factStack)]
Pop == SubSeq(factStack, 1, Len(factStack) - 1)

\* main: factorial(n)
mainFactorial ==
    \E n \in FactArgs :
        /\ factStack = <<>>
        /\ factArg' = n
        /\ factStack' = <<n>>
        /\ factRet' = <<>>
        /\ UNCHANGED notFactorial

\* if n <= 1 { return 1 }
factorialBase ==
    /\ AtEntry /\ Top <= 1
    /\ factStack' = Pop
    /\ factRet' = One64
    /\ UNCHANGED <<factArg, notFactorial>>

\* the call factorial(n-1) of return n * factorial(n-1)
factorialRecurse ==
    /\ AtEntry /\ Top > 1
    /\ factStack' = Append(factStack, Top - 1)
    /\ UNCHANGED <<factArg, factRet, notFactorial>>

\* return n * factorial(n-1), when factorial(n-1) has returned
factorialReturn ==
    /\ factStack # <<>> /\ factRet # <<>>
    /\ factStack' = Pop
    /\ factRet' = Mul64(Top, factRet)
    /\ UNCHANGED <<factArg, notFactorial>>

factorial == factorialBase \/ factorialRecurse \/ factorialReturn

FactorialNext == mainFactorial \/ factorial

\* ------------------------------------------------------------------------
\* The pointers program: pointersWithFunctions and pointersWithSlices
\* ------------------------------------------------------------------------
\* A call has a frame with its own local variables; an argument is copied
\* into the parameter of the new frame.  A pointer is the place of a
\* variable: the frame and the name.  A slice is a header (array, length)
\* and its elements are in an array on the heap.  The program's balance is
\* 100.0 and the amount 50.0; the model also runs the example with the other
\* values of Balances and AddAmounts, whole numbers that float64 holds
\* exactly.
Balances == {0, 100, 250}
AddAmounts == {-50, 0, 50, 75}

Frame(fn, pc, locals) == [fn |-> fn, pc |-> pc, locals |-> locals]
NoLocals == [none |-> 0]

\* &v for the variable v of the frame at this depth
AddressOf(depth, v) == [frame |-> depth, var |-> v]

\* *p
Load(fs, p) == fs[p.frame].locals[p.var]

\* a variant of Store that writes nowhere
StoreNowhere(fs, p, v) == fs

\* *p = v
Store(fs, p, v) == [fs EXCEPT ![p.frame].locals[p.var] = v]

\* a slice of the whole array
SliceOf(array, len) == [array |-> array, len |-> len]

\* the elements of slice s
Elements(h, s) == SubSeq(h[s.array], 1, s.len)

Depth == Len(frames)
TopFrame == frames[Depth]
At(fn, pc) == frames # <<>> /\ TopFrame.fn = fn /\ TopFrame.pc = pc
Goto(fs, pc) == [fs EXCEPT ![Len(fs)].pc = pc]

\* main is about to call pointersWithFunctions
PointersIdle ==
    /\ frames = <<Frame("main", "pointersWithFunctions", NoLocals)>>
    /\ heap = <<>>
    /\ printed = <<>>

\* pointersWithFunctions: balance := 100.0 and the first Printf
pointersWithFunctions ==
    \E b0 \in Balances, amount \in AddAmounts :
        /\ At("main", "pointersWithFunctions")
        /\ frames' = Append(Goto(frames, "pointersWithSlices"),
                            Frame("pointersWithFunctions", "addMoneyByValue",
                                  [balance |-> b0, amount |-> amount]))
        /\ printed' = Append(printed, b0)
        /\ UNCHANGED <<heap, notPointers>>

\* addMoneyByValue(balance, 50.0): the parameter balance gets the value
callAddMoneyByValue ==
    /\ At("pointersWithFunctions", "addMoneyByValue")
    /\ frames' = Append(Goto(frames, "Printf(balance)"),
                        Frame("addMoneyByValue", "body",
                              [balance |-> TopFrame.locals.balance,
                               amount |-> TopFrame.locals.amount]))
    /\ UNCHANGED <<heap, printed, notPointers>>

\* func addMoneyByValue: balance += amount
addMoneyByValue ==
    /\ At("addMoneyByValue", "body")
    /\ frames' = Goto([frames EXCEPT ![Depth].locals.balance = @ + TopFrame.locals.amount],
                      "return")
    /\ UNCHANGED <<heap, printed, notPointers>>

\* the Printf after addMoneyByValue
printAfterByValue ==
    /\ At("pointersWithFunctions", "Printf(balance)")
    /\ printed' = Append(printed, TopFrame.locals.balance)
    /\ frames' = Goto(frames, "addMoneyByPointer")
    /\ UNCHANGED <<heap, notPointers>>

\* addMoneyByPointer(&balance, 50.0): the parameter balance gets the address
callAddMoneyByPointer ==
    /\ At("pointersWithFunctions", "addMoneyByPointer")
    /\ frames' = Append(Goto(frames, "Printf(balance) 2"),
                        Frame("addMoneyByPointer", "body",
                              [balance |-> AddressOf(Depth, "balance"),
                               amount |-> TopFrame.locals.amount]))
    /\ UNCHANGED <<heap, printed, notPointers>>

\* func addMoneyByPointer: *balance += amount
addMoneyByPointer ==
    /\ At("addMoneyByPointer", "body")
    /\ LET p == TopFrame.locals.balance
       IN  frames' = Goto(Store(frames, p, Load(frames, p) + TopFrame.locals.amount),
                          "return")
    /\ UNCHANGED <<heap, printed, notPointers>>

\* the Printf after addMoneyByPointer
printAfterByPointer ==
    /\ At("pointersWithFunctions", "Printf(balance) 2")
    /\ printed' = Append(printed, TopFrame.locals.balance)
    /\ frames' = Goto(frames, "return")
    /\ UNCHANGED <<heap, notPointers>>

\* pointersWithSlices: numbers := []int{1, 2, 3} and the first Printf
pointersWithSlices ==
    /\ At("main", "pointersWithSlices")
    /\ heap' = Append(heap, <<1, 2, 3>>)
    /\ frames' = Append(Goto(frames, "return"),
                        Frame("pointersWithSlices", "modifySlice",
                              [numbers |-> SliceOf(Len(heap) + 1, 3)]))
    /\ printed' = Append(printed, <<1, 2, 3>>)
    /\ UNCHANGED notPointers

\* modifySlice(numbers): the parameter s gets the slice header
callModifySlice ==
    /\ At("pointersWithSlices", "modifySlice")
    /\ frames' = Append(Goto(frames, "Printf(numbers)"),
                        Frame("modifySlice", "body", [s |-> TopFrame.locals.numbers]))
    /\ UNCHANGED <<heap, printed, notPointers>>

\* func modifySlice: s[0] = 999
modifySlice ==
    /\ At("modifySlice", "body")
    /\ heap' = [heap EXCEPT ![TopFrame.locals.s.array][1] = 999]
    /\ frames' = Goto(frames, "return")
    /\ UNCHANGED <<printed, notPointers>>

\* the Printf after modifySlice
printAfterModifySlice ==
    /\ At("pointersWithSlices", "Printf(numbers)")
    /\ printed' = Append(printed, Elements(heap, TopFrame.locals.numbers))
    /\ frames' = Goto(frames, "return")
    /\ UNCHANGED <<heap, notPointers>>

\* a function returns: its frame is gone.  When main returns the program ends.
return ==
    /\ frames # <<>> /\ TopFrame.pc = "return"
    /\ frames' = SubSeq(frames, 1, Depth - 1)
    /\ UNCHANGED <<heap, printed, notPointers>>

PointerNext ==
    \/ pointersWithFunctions
    \/ callAddMoneyByValue \/ addMoneyByValue \/ printAfterByValue
    \/ callAddMoneyByPointer \/ addMoneyByPointer \/ printAfterByPointer
    \/ pointersWithSlices
    \/ callModifySlice \/ modifySlice \/ printAfterModifySlice
    \/ return

\* ------------------------------------------------------------------------
\* The file-I/O program
\* ------------------------------------------------------------------------
\* A file is a sequence of lines, each with its "\n".  Every call of the
\* operating system can fail; a write that fails can leave a part of what it
\* was to write.  main calls the eight examples in order, each goes on
\* after the one before whatever happened in it, and the program can be run
\* again in the same directory.
MaxRuns == 2            \* runs of the program

Missing == [exists |-> FALSE, lines |-> <<>>]
File(lines) == [exists |-> TRUE, lines |-> lines]

FileNames == {"output.txt", "buffered.txt", "output_copy.txt"}

\* what a file of the directory can hold before the first run
Before == {Missing, File(<<>>), File(<<"left from before\n">>)}

\* data of writeSimpleFile
SimpleData == <<"Hello, File I/O!\n", "This is a test file.\n">>

\* the three writer.WriteString of writeBufferedFile
BufferedData ==
    << "Line 1: Using buffered writer\n",
       "Line 2: More efficient for multiple writes\n",
       "Line 3: Don't forget to flush!\n" >>

\* the file.WriteString of appendToFile
AppendedData == <<"This line was appended!\n">>

\* the proper prefixes of data: what a write that fails can have written
Parts(data) == {SubSeq(data, 1, n) : n \in 0..(Len(data) - 1)}

\* a variant of Truncated that opens the file without O_TRUNC: what was
\* written over stays behind the new lines
NotTruncated(file, data) ==
    File(data \o SubSeq(file.lines, Len(data) + 1, Len(file.lines)))

\* a file opened with O_CREATE|O_TRUNC (os.WriteFile, os.Create) and then
\* written: it holds what was written, whatever it held
Truncated(file, data) == File(data)

\* os.OpenFile(name, os.O_APPEND|os.O_WRONLY, 0644): no O_CREATE, so a
\* missing file is an error
CanOpenForAppend(file) == file.exists

\* os.Open, os.ReadFile, os.Stat
CanOpen(file) == file.exists

\* the directory before the first run; main is about to call writeSimpleFile
FilesIdle ==
    /\ disk = [f \in FileNames |-> Missing]
    /\ fileRun = [pc |-> 1, run |-> 1, ok |-> TRUE]

\* main goes on with example pc; good: every operation of the example just
\* called succeeded
Goes(pc, good) ==
    /\ fileRun' = [fileRun EXCEPT !.pc = pc, !.ok = @ /\ good]
    /\ UNCHANGED notFiles

\* Example 1: os.WriteFile("output.txt", data, 0644)
writeSimpleFile ==
    /\ fileRun.pc = 1
    /\ \/ disk' = [disk EXCEPT !["output.txt"] = Truncated(@, SimpleData)] /\ Goes(2, TRUE)
       \/ UNCHANGED disk /\ Goes(2, FALSE)
       \/ \E part \in Parts(SimpleData) :
             disk' = [disk EXCEPT !["output.txt"] = Truncated(@, part)] /\ Goes(2, FALSE)

\* Example 2: os.ReadFile("output.txt")
readSimpleFile ==
    /\ fileRun.pc = 2
    /\ UNCHANGED disk
    /\ \E good \in BOOLEAN : (good => CanOpen(disk["output.txt"])) /\ Goes(3, good)

\* Example 3: os.Create("buffered.txt"), three WriteString and Flush, whose
\* errors the program does not look at
writeBufferedFile ==
    /\ fileRun.pc = 3
    /\ \/ disk' = [disk EXCEPT !["buffered.txt"] = Truncated(@, BufferedData)] /\ Goes(4, TRUE)
       \/ UNCHANGED disk /\ Goes(4, FALSE)
       \/ \E part \in Parts(BufferedData) :
             disk' = [disk EXCEPT !["buffered.txt"] = Truncated(@, part)] /\ Goes(4, FALSE)

\* Example 4: os.Open("buffered.txt") and io.ReadAll
readBufferedFile ==
    /\ fileRun.pc = 4
    /\ UNCHANGED disk
    /\ \E good \in BOOLEAN : (good => CanOpen(disk["buffered.txt"])) /\ Goes(5, good)

\* Example 5: os.OpenFile("output.txt", os.O_APPEND|os.O_WRONLY, 0644) and
\* file.WriteString
appendToFile ==
    /\ fileRun.pc = 5
    /\ \/ /\ CanOpenForAppend(disk["output.txt"])
          /\ disk' = [disk EXCEPT !["output.txt"] = File(@.lines \o AppendedData)]
          /\ Goes(6, TRUE)
       \/ UNCHANGED disk /\ Goes(6, FALSE)

\* Example 6: os.Open("output.txt") and a bufio.Scanner
readLineByLine ==
    /\ fileRun.pc = 6
    /\ UNCHANGED disk
    /\ \E good \in BOOLEAN : (good => CanOpen(disk["output.txt"])) /\ Goes(7, good)

\* Example 7: os.Open("output.txt"), os.Create("output_copy.txt"), io.Copy
copyFile ==
    /\ fileRun.pc = 7
    /\ \/ /\ CanOpen(disk["output.txt"])
          /\ \/ disk' = [disk EXCEPT !["output_copy.txt"] =
                                        Truncated(@, disk["output.txt"].lines)]
                /\ Goes(8, TRUE)
             \/ \E part \in Parts(disk["output.txt"].lines) :
                   /\ disk' = [disk EXCEPT !["output_copy.txt"] = Truncated(@, part)]
                   /\ Goes(8, FALSE)
       \/ UNCHANGED disk /\ Goes(8, FALSE)

\* Example 8: os.Stat("output.txt") and os.Stat("nonexistent.txt"); main
\* returns
checkFileExists ==
    /\ fileRun.pc = 8
    /\ UNCHANGED disk
    /\ Goes(9, TRUE)

\* go run main.go, once more in the same directory
runAgain ==
    /\ fileRun.pc = 9
    /\ fileRun.run < MaxRuns
    /\ fileRun' = [pc |-> 1, run |-> fileRun.run + 1, ok |-> TRUE]
    /\ UNCHANGED <<disk, notFiles>>

FileNext ==
    \/ writeSimpleFile \/ readSimpleFile \/ writeBufferedFile \/ readBufferedFile
    \/ appendToFile \/ readLineByLine \/ copyFile \/ checkFileExists
    \/ runAgain

\* ------------------------------------------------------------------------
\* Specifications
\* ------------------------------------------------------------------------
\* no program has taken a step, no request has arrived, no call is made
InitAll ==
    /\ Init /\ ServerInit /\ ConnInit /\ CalcIdle /\ BankIdle /\ FactIdle
    /\ PointersIdle /\ FilesIdle

\* the goroutines program
Spec == InitAll /\ [][Next]_allVars

\* Fair scheduling: the Go scheduler does not stop while some goroutine can
\* take a step.  Every goroutine of the program takes finitely many steps, so
\* this is the same as weak fairness of each goroutine separately: a behaviour
\* is fair iff it goes on until no goroutine can take a step.
FairSpec == Spec /\ WF_allVars(Next)

\* the REST server, serving one request after the other
ServerSpec == InitAll /\ [][ServerNext]_allVars

\* the REST server, serving NumConns requests at the same time
ConcurrentSpec == InitAll /\ [][ConcurrentNext]_allVars

\* package calculator: the functions called with every pair of arguments
CalcInit ==
    /\ Init /\ ServerInit /\ ConnInit /\ BankIdle /\ FactIdle /\ PointersIdle
    /\ FilesIdle
    /\ a \in Args /\ b \in Args
    /\ ret = NoCall
    /\ sub = [t \in Subtests |-> NotRun]

CalcSpec == CalcInit /\ [][CalcNext]_allVars

\* the BankAccount of main under every sequence of MaxCalls deposits and
\* withdrawals
BankSpec == InitAll /\ [][BankNext]_allVars

\* calls of factorial, one after the other
FactorialSpec == InitAll /\ [][FactorialNext]_allVars

\* pointersWithFunctions and pointersWithSlices, step by step
PointerSpec == InitAll /\ [][PointerNext]_allVars

\* the file-I/O program run MaxRuns times in a directory that holds anything
\* of Before
FileInit ==
    /\ Init /\ ServerInit /\ ConnInit /\ CalcIdle /\ BankIdle /\ FactIdle
    /\ PointersIdle
    /\ disk \in [FileNames -> Before]
    /\ fileRun = [pc |-> 1, run |-> 1, ok |-> TRUE]

FileSpec == FileInit /\ [][FileNext]_allVars

\* a call that can take a step takes it: the goroutine of main is the only
\* one and nothing else can run
FairFactorialSpec == FactorialSpec /\ WF_allVars(factorial)

\* ------------------------------------------------------------------------
\* Properties
\* ------------------------------------------------------------------------
Range(seq) == {seq[i] : i \in 1..Len(seq)}
Count(seq, v) == Cardinality({i \in 1..Len(seq) : seq[i] = v})
Jobs == 1..NumJobs

\* main is inside workerPoolExample, after the workers were started
InPool == pcMain \in {"pool_send", "pool_close", "pool_collect", "pool_ret"}

\* job j was sent on jobs
JobSent(j) == IF pcMain = "pool_send" THEN j < mi ELSE TRUE

\* the places job j (or its result) is in: the jobs buffer, a worker's hands,
\* the results buffer, main's received values
Places(j) ==
    Count(jobs, j) + Cardinality({w \in Workers : wJob[w] = j})
    + Count(results, Double(j)) + Count(received, Double(j))

\* C1: in workerPoolExample every job 1..5 that was sent is in exactly one
\* place (queued, held by exactly one worker, doubled in results, or received
\* by main), and when main has finished collecting it has received exactly 5
\* results whose multiset is {2, 4, 6, 8, 10}.
C1_PoolResults ==
    /\ InPool => \A j \in Jobs : Places(j) = (IF JobSent(j) THEN 1 ELSE 0)
    /\ InPool => Len(jobs) + Len(results) + Len(received)
                   + Cardinality({w \in Workers : wJob[w] # 0}) <= NumJobs
    /\ pcMain = "pool_ret" =>
          /\ Len(received) = 5
          /\ \A v \in {2, 4, 6, 8, 10} : Count(received, v) = 1

\* main has collected the 5 results, and not in the order of the jobs
C1_Witness ==
    /\ pcMain = "pool_ret"
    /\ received[1] = 6
    /\ Range(received) = {2, 4, 6, 8, 10}

\* C5: jobs and results never hold more than their capacity of 5, and no send
\* to either ever has to wait: whenever main is about to send a job the jobs
\* buffer has room, whenever a worker is about to send a result the results
\* buffer has room.
C5_NoBackPressure ==
    /\ Len(jobs) <= 5 /\ Len(results) <= 5
    /\ pcMain = "pool_send" => CanSend(jobs, JobsCap) /\ ~jobsClosed
    /\ \A w \in Workers : pcW[w] = "work" => CanSend(results, ResultsCap)

\* all 5 jobs are queued and main is about to close: the 5th send found room
C5_Witness == pcMain = "pool_close" /\ Len(jobs) = 5

\* selectExample has returned
SelectReturned == pcMain \in {"final", "exited"}

\* C7: selectExample performs exactly two receives, one from ch1 and one from
\* ch2 in either order, and when it has returned both sender goroutines have
\* completed their send: none is left at its send.
C7_SelectBoth ==
    /\ Len(selGot) <= 2
    /\ pcMain = "select" => Len(selGot) = mi /\ mi < 2
    /\ \A k \in Senders : Count(selGot, k) = (IF pcS[k] = "done" THEN 1 ELSE 0)
    /\ SelectReturned =>
          /\ Len(selGot) = 2
          /\ Range(selGot) = {1, 2}
          /\ \A k \in Senders : pcS[k] = "done"

\* selectExample returned having received from ch2 first
C7_Witness == SelectReturned /\ selGot = <<2, 1>>

\* main's one-second sleep is over
SleepOver == pcMain \notin {"start", "go_letters", "sleep", "sleeping"}

\* C9: when main's 1-second sleep is over, printNumbers and printLetters have
\* each printed all 5 lines.
C9_SleepWaits == SleepOver => numI = 5 /\ letI = 5

\* main has passed bufferedChannelExample
BufferedReturned ==
    pcMain \notin {"start", "go_letters", "sleep", "sleeping", "go_send", "recv",
                   "buf_send1", "buf_send2", "buf_recv1", "buf_recv2"}

\* the states of bufferedChannelExample, statement by statement
BufferedStates ==
    /\ pcMain = "buf_send1" => bch = <<>> /\ CanSend(bch, BufCap)
    /\ pcMain = "buf_send2" => bch = <<"first">> /\ CanSend(bch, BufCap)
    /\ pcMain = "buf_recv1" =>
          /\ bch = <<"first", "second">>
          /\ ~CanSend(bch, BufCap)
          /\ CanRecv(bch)
          /\ bout = <<>>
    /\ pcMain = "buf_recv2" => bch = <<"second">> /\ CanRecv(bch) /\ bout = <<"first">>
    /\ BufferedReturned => bch = <<>> /\ bout = <<"first", "second">>

\* C10: in bufferedChannelExample (capacity 2) each of the two sends finds
\* room with no receiver running; with both values buffered the buffer is full,
\* so a third send placed there could not proceed, and it never could, because
\* a value leaves the buffer only by main's own two receives; those return
\* "first" then "second".
C10_Buffered ==
    /\ []BufferedStates
    /\ [][Len(bch') < Len(bch) => pcMain \in {"buf_recv1", "buf_recv2"}]_vars

\* both values were received, in the order they were sent
C10_Witness == pcMain = "pool_spawn" /\ bout = <<"first", "second">> /\ bch = <<>>

\* main waits in workerPoolExample: jobs is full, or results is empty
MainBlocked ==
    \/ pcMain = "pool_send" /\ ~jobsClosed /\ ~CanSend(jobs, JobsCap)
    \/ pcMain = "pool_collect" /\ ~CanRecv(results)

\* worker w waits: jobs is empty and open, or results is full
WorkerBlocked(w) ==
    \/ pcW[w] = "range" /\ ~CanRecv(jobs) /\ ~jobsClosed
    \/ pcW[w] = "work" /\ ~CanSend(results, ResultsCap)

\* main waits and no worker can ever wake it
PoolDeadlock == MainBlocked /\ \A w \in Workers : WorkerBlocked(w) \/ pcW[w] = "done"

\* C2: workerPoolExample never reaches a state in which main and all workers
\* are blocked, and under fair scheduling every execution that enters it
\* reaches the point where main has received its 5th result and returns.
C2_PoolTerminates ==
    /\ []~PoolDeadlock
    /\ [](pcMain = "pool_collect" => Len(received) = mi - 1)
    /\ [](pcMain = "pool_ret" => Len(received) = 5)
    /\ (pcMain = "pool_spawn") ~> (pcMain = "sel_spawn1")

\* main waits for a result while a worker is still at work on one
C2_Witness ==
    /\ pcMain = "pool_collect" /\ MainBlocked
    /\ \E w \in Workers : pcW[w] = "work"
    /\ \E w \in Workers : WorkerBlocked(w) \/ pcW[w] = "done"

\* the safety half of C4: a worker leaves its loop only when jobs is closed
\* and empty; jobs is closed once, by main, after all 5 jobs were sent, stays
\* closed, and nothing is sent on it afterwards; after the close no worker is blocked
C4_Signal ==
    /\ [](jobsClosed => pcMain \notin {"pool_spawn", "pool_send", "pool_close"})
    /\ [](pcMain \in {"pool_collect", "pool_ret"} => jobsClosed)
    /\ [](jobsClosed => \A w \in Workers : ~WorkerBlocked(w))
    /\ []~crashed
    /\ [][\A w \in Workers : pcW[w] # "done" /\ pcW'[w] = "done"
                                => jobsClosed /\ jobs = <<>>]_vars
    /\ [][jobsClosed' # jobsClosed
            => /\ ~jobsClosed
               /\ pcMain = "pool_close" /\ mi = NumJobs
               /\ \A j \in Jobs : Places(j) = 1]_vars

\* C4 as claimed: closing jobs is the only termination signal, and under
\* fairness every one of the 3 workers eventually terminates (leaves its loop).
C4_WorkersTerminate ==
    /\ C4_Signal
    /\ <>(\A w \in Workers : pcW[w] = "done")

\* C4 as amended: closing jobs is the only termination signal, and under
\* fairness every worker eventually has left its loop or the process has
\* exited first; no worker is blocked once jobs is closed.
C4_WorkersTerminateOrExit ==
    /\ C4_Signal
    /\ <>(\A w \in Workers : pcW[w] = "done" \/ pcMain = "exited")

\* the process has exited: worker 1 had left its loop, worker 3 had not yet
\* looked at the closed jobs channel
C4_Witness ==
    /\ pcMain = "exited" /\ jobsClosed /\ jobs = <<>>
    /\ pcW[1] = "done" /\ pcW[3] = "range"

\* receiveData has returned
ReceiveReturned == pcMain \notin {"start", "go_letters", "sleep", "sleeping", "go_send", "recv"}

\* C6: receiveData receives exactly 1, 2, 3, 4, 5 in that order, returns only
\* after sendData has closed the channel, and under fairness always returns;
\* sendData never sends after its close.
C6_ProducerConsumer ==
    /\ [](Len(recvd) <= 5 /\ \A i \in 1..Len(recvd) : recvd[i] = i)
    /\ [](pcMain = "recv" /\ pcSend = "send" => Len(recvd) = sendI - 1)
    /\ [](ReceiveReturned => recvd = <<1, 2, 3, 4, 5>> /\ chClosed)
    /\ [](chClosed => pcSend = "done")
    /\ []~crashed
    /\ (pcMain = "recv") ~> (pcMain = "buf_send1")

\* receiveData has just returned with all five values
C6_Witness == pcMain = "buf_send1" /\ recvd = <<1, 2, 3, 4, 5>> /\ pcSend = "done"

\* the example main is in: 1 basic goroutines, 2 channels, 3 buffered channel,
\* 4 worker pool, 5 select, 6 the final line, 7 exited
Example ==
    CASE pcMain \in {"start", "go_letters", "sleep", "sleeping"} -> 1
      [] pcMain \in {"go_send", "recv"} -> 2
      [] pcMain \in {"buf_send1", "buf_send2", "buf_recv1", "buf_recv2"} -> 3
      [] pcMain \in {"pool_spawn", "pool_send", "pool_close", "pool_collect", "pool_ret"} -> 4
      [] pcMain \in {"sel_spawn1", "sel_spawn2", "select"} -> 5
      [] pcMain = "final" -> 6
      [] OTHER -> 7

\* C8: under fair scheduling every execution of main passes through the five
\* examples in order and prints the final line; nothing panics and main is
\* never blocked for ever.
C8_RunsToCompletion ==
    /\ []~crashed
    /\ [][Example' \in {Example, Example + 1}]_vars
    /\ <>(pcMain = "exited")

\* main has returned after all five examples did their work
C8_Witness ==
    /\ pcMain = "exited"
    /\ recvd = <<1, 2, 3, 4, 5>>
    /\ bout = <<"first", "second">>
    /\ Len(selGot) = 2
    /\ jobsClosed /\ results = <<>>

\* the phase of the worker pool: 1 not started (no job sent yet), 2 processing,
\* 3 drained (main has collected every result), 4 closed (workerPoolExample
\* has returned)
PoolPhase ==
    IF Example < 4 \/ pcMain = "pool_spawn" THEN 1
    ELSE IF pcMain \in {"pool_send", "pool_close", "pool_collect"} THEN 2
    ELSE IF pcMain = "pool_ret" THEN 3
    ELSE 4

\* C3 as claimed: main receives the same sequence of result values in every
\* execution; the sequence 2, 4, 6, 8, 10 is one that it receives.
C3_SameSequence == pcMain = "pool_ret" => received = <<2, 4, 6, 8, 10>>

\* C3 as amended: every execution moves through the phases not-started,
\* processing, drained, closed in this order, and main receives the same five
\* values 2, 4, 6, 8, 10, each once; their order depends on how the workers
\* are scheduled, a result overtaking at most 2 results of earlier jobs.
C3_SamePhasesSameValues ==
    /\ [][PoolPhase' \in {PoolPhase, PoolPhase + 1}]_vars
    /\ [](PoolPhase = 1 => received = <<>> /\ results = <<>> /\ jobs = <<>>)
    /\ [](PoolPhase = 3 => Len(received) = 5 /\ Range(received) = {2, 4, 6, 8, 10})
    /\ [](PoolPhase = 4 => jobs = <<>> /\ results = <<>> /\ jobsClosed)
    /\ [](\A i \in 1..Len(received) : received[i] <= Double(i + 2))

\* the execution in which main receives the results in the order of the jobs
C3_Witness == pcMain = "pool_ret" /\ received = <<2, 4, 6, 8, 10>>

\* ------------------------------------------------------------------------
\* Properties of the REST server
\* ------------------------------------------------------------------------
\* the path names no user: it is /api/users or /api/users/
ListPath(path) == path \in {PathUsers, PathUsersSlash}

\* the {id} segment of a path below /api/users/ is an integer in decimal
IsInteger(s) ==
    LET digits == IF s # <<>> /\ Head(s) \in {"+", "-"} THEN Tail(s) ELSE s
    IN  digits # <<>> /\ \A i \in 1..Len(digits) : digits[i] \in Digits

\* some stored user has the ID the path names
Stored(us, path) == \E i \in 1..Len(us) : us[i].ID = Atoi(IDStr(path)).id

\* the create body is a JSON object with a name and an email
ValidCreateBody(body) == body.kind = "object" /\ body.name # "" /\ body.email # ""

\* the status the four routes owe request r when the slice holds us: by the
\* method, then by the form of the request, then by the stored users
StatusByValidity(r, us) ==
    IF ListPath(r.path)
    THEN IF r.method = "GET" THEN StatusOK ELSE StatusMethodNotAllowed
    ELSE IF r.path = PathCreate
    THEN IF r.method # "POST" THEN StatusMethodNotAllowed
         ELSE IF ValidCreateBody(r.body) THEN StatusCreated ELSE StatusBadRequest
    ELSE IF r.method \notin {"GET", "DELETE"} THEN StatusMethodNotAllowed
         ELSE IF ~IsInteger(IDStr(r.path)) THEN StatusBadRequest
         ELSE IF Stored(us, r.path) THEN StatusOK ELSE StatusNotFound

\* the request is a CORS preflight that corsMiddleware answers: OPTIONS on a
\* path whose handler main registered through withMiddleware
AnsweredPreflight(r) ==
    r.method = "OPTIONS" /\ (ListPath(r.path) \/ r.path = PathCreate)

\* C11 as stated: every request gets the status its validity decides: 405 for
\* a method that is not the route's, else 400 for a non-integer {id}, a body
\* that is no valid JSON or an empty name or email, else 404 when no stored
\* user has the id, else 200 (GET, DELETE) or 201 (create).
C11_StatusByValidity ==
    [][resp'.status = StatusByValidity(req', users)]_allVars

\* C11, amended: the same, except that an OPTIONS request to /api/users,
\* /api/users/ or /api/users/create is answered 200 by corsMiddleware (an
\* OPTIONS request to /api/users/{id} gets 405 like every method other than
\* GET and DELETE).
C11_StatusByValidityOrPreflight ==
    [][resp'.status = IF AnsweredPreflight(req') THEN StatusOK
                      ELSE StatusByValidity(req', users)]_allVars

\* GET /api/users/-2: the id is an integer no user has, the answer is 404
C11_Witness ==
    /\ req.method = "GET" /\ IDStr(req.path) = <<"-", "2">>
    /\ resp.status = StatusNotFound

\* the body is one JSON object with "success" and at most "message" and "data"
IsEnvelope(body) ==
    /\ Len(body) = 1
    /\ "success" \in body[1].keys
    /\ body[1].keys \subseteq {"success", "message", "data"}

EnvelopeOfStatus(r) ==
    /\ IsEnvelope(r.body)
    /\ r.body[1].success <=> r.status \in {StatusOK, StatusCreated}
    /\ <<"Content-Type", "application/json">> \in r.header

C13_Preflight ==
    [][req'.method = "OPTIONS" =>
          /\ resp'.status = StatusOK
          /\ CORSHeaders \subseteq resp'.header
          /\ resp'.ran = <<>>
          /\ UNCHANGED <<users, nextID>>]_allVars

\* the request is a POST to /api/users/create with a name and an email
ValidCreate(r) ==
    r.method = "POST" /\ r.path = PathCreate /\ ValidCreateBody(r.body)

\* the user a response carries as its data
DataOf(r) == r.body[1].data

\* C15: a valid POST /api/users/create appends exactly one user at the end of
\* users, with ID = nextID whatever id the body has, adds 1 to nextID and
\* returns that user with 201; a GET /api/users/{that id} that follows
\* returns the same user with 200.
C15_CreateThenGet ==
    [][/\ ValidCreate(req') =>
            LET u == User(nextID, req'.body.name, req'.body.email)
            IN  /\ users' = Append(users, u)
                /\ nextID' = nextID + 1
                /\ resp'.status = StatusCreated
                /\ IsEnvelope(resp'.body) /\ DataOf(resp') = DataUser(u)
       /\ ( /\ ValidCreate(req) /\ resp.status = StatusCreated
            /\ req'.method = "GET" /\ ~ListPath(req'.path)
            /\ Atoi(IDStr(req'.path)) = [err |-> FALSE, id |-> DataOf(resp).items[1].ID] )
          => /\ resp'.status = StatusOK
             /\ IsEnvelope(resp'.body) /\ DataOf(resp') = DataOf(resp)
      ]_allVars

\* a create whose body says "id": 1 was answered 201, the new user has ID 4
C15_Witness ==
    /\ ValidCreate(req) /\ req.body.id = 1
    /\ resp.status = StatusCreated
    /\ users = Append(InitialUsers, User(4, "Jane Doe", "jane@example.com"))

\* the request is a DELETE (or GET) for an integer id below /api/users/
ForID(r, method) ==
    /\ r.method = method /\ ~ListPath(r.path) /\ r.path # PathCreate
    /\ IsInteger(IDStr(r.path))

\* us without the users whose ID is id, in the same order
Without(us, id) == SelectSeq(us, LAMBDA u : u.ID # id)

\* C16: a DELETE /api/users/{id} for a stored id removes exactly that user,
\* keeps every other user in the same order, leaves nextID alone and returns
\* 200; a GET or DELETE for the same id that follows returns 404.
C16_DeleteThenGone ==
    [][/\ (ForID(req', "DELETE") /\ Stored(users, req'.path)) =>
            /\ users' = Without(users, Atoi(IDStr(req'.path)).id)
            /\ Len(users') = Len(users) - 1
            /\ nextID' = nextID
            /\ resp'.status = StatusOK
       /\ ( /\ ForID(req, "DELETE") /\ resp.status = StatusOK
            /\ ForID(req', "GET") \/ ForID(req', "DELETE")
            /\ Atoi(IDStr(req'.path)) = Atoi(IDStr(req.path)) )
          => resp'.status = StatusNotFound
      ]_allVars

\* DELETE /api/users/2 was answered 200 after a user 4 was created: 1, 3 and
\* 4 are left, in that order
C16_Witness ==
    /\ ForID(req, "DELETE") /\ IDStr(req.path) = <<"2">>
    /\ resp.status = StatusOK
    /\ Len(users) = 3
    /\ users[1].ID = 1 /\ users[2].ID = 3 /\ users[3].ID = 4

\* the IDs of the users in us
IDs(us) == {us[i].ID : i \in 1..Len(us)}

\* the IDs that were given and are free: below nextID and of no stored user
\* (a DELETE frees the ID of the user it removes, which is below nextID)
Freed(us, next) == (1..(next - 1)) \ IDs(us)

\* C25: when the requests are served one after the other, the users in the
\* slice have pairwise distinct IDs, all smaller than nextID; nextID never
\* decreases; a user that joins the slice gets the ID nextID had; a DELETE
\* answered 200 frees the ID it names; and an ID that is free stays free in
\* every step, so no later create gives it again.
C25_IDs ==
    /\ [](\A i, j \in 1..Len(users) : users[i].ID = users[j].ID => i = j)
    /\ [](\A i \in 1..Len(users) : users[i].ID < nextID)
    /\ [][nextID' >= nextID]_allVars
    /\ [][\A id \in IDs(users') \ IDs(users) : id = nextID /\ nextID' > id]_allVars
    /\ [][(ForID(req', "DELETE") /\ resp'.status = StatusOK)
            => Atoi(IDStr(req'.path)).id \in Freed(users', nextID') \ Freed(users, nextID)
         ]_allVars
    /\ [][Freed(users, nextID) \subseteq Freed(users', nextID')]_allVars

\* user 4 was created and deleted, and the create that followed gave ID 5
C25_Witness ==
    /\ ValidCreate(req) /\ resp.status = StatusCreated
    /\ IDs(users) = {1, 2, 3, 5}
    /\ nextID = 6

\* C26: only a create answered 201 and a delete answered 200 change users or
\* nextID: a GET, and a request answered 400, 404 or 405, leaves both as they
\* were.
C26_Frame ==
    [][/\ ( \/ req'.method = "GET"
            \/ resp'.status \in {StatusBadRequest, StatusNotFound, StatusMethodNotAllowed} )
          => UNCHANGED <<users, nextID>>
       /\ (users' # users \/ nextID' # nextID)
          => \/ ValidCreate(req') /\ resp'.status = StatusCreated
             \/ ForID(req', "DELETE") /\ resp'.status = StatusOK
      ]_allVars

\* after a create, a create with an empty name was answered 400: the slice
\* still has its four users and nextID is still 5
C26_Witness ==
    /\ req.method = "POST" /\ req.path = PathCreate /\ req.body.name = ""
    /\ resp.status = StatusBadRequest
    /\ Len(users) = 4 /\ nextID = 5

\* no handler but h ran
RanOnly(h) == \A i \in 1..Len(resp.ran) : resp.ran[i] = h

\* the request went to withMiddleware(h): corsMiddleware set its headers,
\* and either answered the OPTIONS request itself or h ran once
WentTo(h) ==
    /\ CORSHeaders \subseteq resp.header
    /\ IF req.method = "OPTIONS"
       THEN resp.ran = <<>> /\ resp.status = StatusOK
       ELSE resp.ran = <<h>>

\* C27: /api/users and /api/users/ go to the list handler; /api/users/create
\* goes to the create handler and to no other, for every method, so that GET
\* /api/users/create gets 405; every other path below /api/users/ goes to
\* get-by-id for GET, to delete for DELETE, and gets 405 from no handler for
\* every other method; a POST to a path that is not /api/users/create
\* creates no user.
C27_Dispatch ==
    /\ [](req # NoRequest =>
            IF ListPath(req.path) THEN WentTo("getUsersHandler")
            ELSE IF req.path = PathCreate
            THEN /\ WentTo("createUserHandler")
                 /\ RanOnly("createUserHandler")
                 /\ req.method = "GET" => resp.status = StatusMethodNotAllowed
            ELSE IF req.method = "GET" THEN WentTo("getUserByIDHandler")
            ELSE IF req.method = "DELETE" THEN WentTo("deleteUserHandler")
            ELSE resp.ran = <<>> /\ resp.status = StatusMethodNotAllowed)
    /\ [][(req'.method = "POST" /\ req'.path # PathCreate)
            => /\ UNCHANGED <<users, nextID>>
               /\ resp'.status = StatusMethodNotAllowed]_allVars

\* GET /api/users/create was answered 405 by createUserHandler
C27_Witness ==
    /\ req.method = "GET" /\ req.path = PathCreate
    /\ resp.ran = <<"createUserHandler">>
    /\ resp.status = StatusMethodNotAllowed

\* ------------------------------------------------------------------------
\* Properties of the REST server serving requests at the same time
\* ------------------------------------------------------------------------
\* every request in service has been answered
AllAnswered == \A c \in Conns : conn[c].pc = "done"

Created == {c \in Conns : conn[c].kind = "create" /\ conn[c].status = StatusCreated}
Deleted == {c \in Conns : conn[c].kind = "delete" /\ conn[c].status = StatusOK}
HasUser(id) == \E i \in 1..Len(users) : users[i].ID = id

\* C14: when create and delete requests are served at the same time,
\* interleaved at the single reads and writes of users and nextID, no handler
\* fails, every created user gets an ID of its own, and once all are answered
\* no successful create and no successful delete is lost: each deleted ID is
\* gone, each created and not deleted ID is there, and users holds the three
\* first users plus the created minus the deleted ones.
C14_NoRace ==
    /\ \A c \in Conns : conn[c].pc # "panicked"
    /\ \A c, d \in Created : c # d => conn[c].id # conn[d].id
    /\ AllAnswered =>
          /\ \A d \in Deleted : ~HasUser(conn[d].id)
          /\ \A c \in Created :
                (\A d \in Deleted : conn[d].id # conn[c].id) => HasUser(conn[c].id)
          /\ Len(users) = Len(InitialUsers) + Cardinality(Created) - Cardinality(Deleted)

\* ------------------------------------------------------------------------
\* Properties of package calculator
\* ------------------------------------------------------------------------
\* C17: Divide(a, 0) returns 0 for every a and does not panic.
C17_DivideByZero ==
    (ret.fn = "Divide" /\ b = 0) => (ret.val = 0 /\ ~ret.panic)

\* Divide(-10, 0) has returned
C17_Witness == ret.fn = "Divide" /\ a = 0 - MaxArg /\ b = 0 /\ ret.val = 0

\* C18: for b # 0, Divide(a, b) is the quotient of a by b truncated toward
\* zero: a = Divide(a, b) * b + r with |r| < |b| and r = 0 or of the sign of
\* a; Divide(-10, 2) = -5 and Divide(-7, 2) = -3.
C18_DivideTruncates ==
    (ret.fn = "Divide" /\ b # 0) =>
        LET r == a - ret.val * b
        IN  /\ ~ret.panic
            /\ Abs(r) < Abs(b)
            /\ r = 0 \/ (r < 0) = (a < 0)
            /\ (a = -10 /\ b = 2) => ret.val = -5
            /\ (a = -7 /\ b = 2) => ret.val = -3

\* Divide(-7, 2) has returned -3: the quotient -3.5 was cut, not rounded down
C18_Witness == ret.fn = "Divide" /\ a = -7 /\ b = 2 /\ ret.val = -3

\* the nth Fibonacci number, counted up from F(0) = 0, F(1) = 1
RECURSIVE FibFrom(_, _, _)
FibFrom(k, x, y) == IF k = 0 THEN x ELSE FibFrom(k - 1, y, x + y)
NthFibonacci(n) == FibFrom(n, 0, 1)

RECURSIVE Times(_, _)
Times(x, y) == IF y = 0 THEN 0 ELSE x + Times(x, y - 1)

C21_IsEven ==
    ret.fn = "IsEven" =>
        /\ ~ret.panic
        /\ ret.val = (\E k \in Args : a = 2 * k)
        /\ a \in {0, -4} => ret.val
        /\ a \in {3, -3} => ~ret.val

\* IsEven(-3) has returned false: its remainder is -1, not 1
C21_Witness == ret.fn = "IsEven" /\ a = -3 /\ Rem(a, 2) = -1 /\ ~ret.val

\* ------------------------------------------------------------------------
\* Properties of factorial
\* ------------------------------------------------------------------------
\* n * (n-1) * ... * 1 as a natural number, every digit of it (1 for n <= 1)
RECURSIVE Product(_)
Product(n) == IF n <= 1 THEN <<1>> ELSE MulAdd(Product(n - 1), n, 0)

\* the natural number x is a value of int: x < 2^63
FitsInt(x) ==
    \/ Len(x) < WordDigits
    \/ Len(x) = WordDigits /\ x[WordDigits] < DigitBase \div 2

\* the call main made has returned
FactReturned == factStack = <<>> /\ factRet # <<>>

Max(x, y) == IF x >= y THEN x ELSE y

\* C23 as stated: every call of factorial returns, with 1 for n <= 1 and with
\* the product n * (n-1) * ... * 1 for n >= 1; factorial(5) = 120 and
\* factorial(6) = 720.
C23_Factorial ==
    /\ AtEntry ~> FactReturned
    /\ [](FactReturned =>
            /\ factArg <= 1 => factRet = One64
            /\ factArg >= 1 =>
                  FitsInt(Product(factArg)) /\ factRet = Low64(Product(factArg))
            /\ factArg = 5 => factRet = Low64(<<120>>)
            /\ factArg = 6 => factRet = Low64(<<720>>))

\* What factorial does: every call of factorial(n) returns after max(n, 1)
\* nested calls, each with an n one smaller than its caller's; it returns 1
\* for n <= 1 and the low 64 bits of n * (n-1) * ... * 1 for n >= 1, which
\* is the product itself exactly when n <= 20.
FactorialInt64 ==
    /\ AtEntry ~> FactReturned
    /\ [](/\ Len(factStack) <= Max(factArg, 1)
          /\ \A i \in 1..Len(factStack) : factStack[i] = factArg - i + 1)
    /\ [](FactReturned =>
            /\ factArg <= 1 => factRet = One64
            /\ factArg >= 1 => factRet = Low64(Product(factArg))
            /\ factArg >= 1 => (FitsInt(Product(factArg)) <=> factArg <= 20)
            /\ factArg = 5 => factRet = Low64(<<120>>)
            /\ factArg = 6 => factRet = Low64(<<720>>))

\* factorial(21) has returned the bit pattern of -4249290049419214848: 21!
\* has more than 63 bits
C23_Witness ==
    /\ FactReturned /\ factArg = 21
    /\ ~FitsInt(Product(21))
    /\ factRet = <<0, 47300, 32054, 50439>>

\* ------------------------------------------------------------------------
\* Properties of the pointers program
\* ------------------------------------------------------------------------
\* a call of fn is the latest call in fs
Active(fs, fn) == fs # <<>> /\ fs[Len(fs)].fn = fn

\* the frame of the function that called the latest call
Caller(fs) == fs[Len(fs) - 1]

\* the example pointersWithFunctions is running, called by main
InExample5 == Depth >= 2 /\ frames[2].fn = "pointersWithFunctions"

\* C24: while addMoneyByValue is called, runs and returns, the caller's
\* balance stays as it was; the body of addMoneyByPointer adds the amount to
\* the caller's balance; so the example prints the same balance before and
\* after addMoneyByValue and the balance plus the amount after
\* addMoneyByPointer (100, 100, 150 for 100 and 50); and modifySlice, given
\* the slice and no pointer, changes element 0 of the caller's slice.
C24_ValueAndPointer ==
    /\ [][(Active(frames, "addMoneyByValue") \/ Active(frames', "addMoneyByValue"))
            => frames'[2].locals = frames[2].locals]_allVars
    /\ [][(At("addMoneyByPointer", "body") /\ frames' # frames)
            => Caller(frames').locals.balance
                 = Caller(frames).locals.balance + TopFrame.locals.amount]_allVars
    /\ [](InExample5 =>
            /\ Len(printed) >= 2 => printed[2] = printed[1]
            /\ Len(printed) >= 3 => printed[3] = printed[1] + frames[2].locals.amount
            /\ (printed[1] = 100 /\ frames[2].locals.amount = 50 /\ Len(printed) >= 3)
                  => printed[2] = 100 /\ printed[3] = 150)
    /\ [][(At("modifySlice", "body") /\ frames' # frames)
            => /\ Caller(frames').locals.numbers = Caller(frames).locals.numbers
               /\ Elements(heap', Caller(frames).locals.numbers)
                    = [Elements(heap, Caller(frames).locals.numbers) EXCEPT ![1] = 999]
         ]_allVars
    /\ [](Len(printed) = 5 => printed[4] = <<1, 2, 3>> /\ printed[5] = <<999, 2, 3>>)

\* with balance 100 and amount 50 the examples have printed 100, 100, 150 and
\* the slice before and after modifySlice
C24_Witness ==
    /\ Len(printed) = 5
    /\ printed[1] = 100 /\ printed[2] = 100 /\ printed[3] = 150
    /\ printed[4] = <<1, 2, 3>> /\ printed[5] = <<999, 2, 3>>

\* ------------------------------------------------------------------------
\* Properties of the file-I/O program
\* ------------------------------------------------------------------------
\* main has returned and every file operation of the run succeeded
RunSucceeded == fileRun.pc = 9 /\ fileRun.ok

\* C28: a run in which every file operation succeeds ends with output.txt
\* holding the two written lines and then the appended line, output_copy.txt
\* equal to output.txt and buffered.txt holding its three lines, in the
\* first run and in a run after it alike, whatever the directory held; and
\* when output.txt is missing as appendToFile runs, the append fails and
\* creates no file.
C28_Files ==
    /\ [](RunSucceeded =>
            /\ disk["output.txt"] = File(SimpleData \o AppendedData)
            /\ disk["output_copy.txt"] = disk["output.txt"]
            /\ disk["buffered.txt"] = File(BufferedData))
    /\ [][(fileRun.pc = 5 /\ ~disk["output.txt"].exists /\ fileRun' # fileRun)
            => disk' = disk /\ ~fileRun'.ok]_allVars

\* the program was run again and every operation of that run succeeded:
\* output.txt has its three lines, the appended line once
C28_Witness ==
    /\ RunSucceeded /\ fileRun.run = 2
    /\ disk["output.txt"].lines = SimpleData \o AppendedData
    /\ disk["output_copy.txt"].lines = SimpleData \o AppendedData
    /\ Len(disk["buffered.txt"].lines) = 3

\* ------------------------------------------------------------------------
\* Properties of type BankAccount
\* ------------------------------------------------------------------------
\* the calls made so far are those of main, in main's order
MadeMainCalls ==
    /\ Len(calls) = Len(MainCalls)
    /\ \A i \in 1..Len(calls) : <<calls[i].op, calls[i].amount>> = MainCalls[i]

====
